---- MODULE Spec2Model ----
(***************************************************************************)
(* Model of setup.js, the script that provisions test accounts, creates    *)
(* matches, places bets, drives the matches through their lifecycle and    *)
(* claims the bets.                                                        *)
(*                                                                         *)
(* The module holds several specifications over one set of variables:      *)
(*   SpecKeys    the two credential cursors (getNextMainKey/AdminKey)      *)
(*   SpecRetry   one run of retryOnFail around one remote operation        *)
(*   SpecManage  manageMatches: end betting, cancel, finish                *)
(*   SpecClaims  the bet tracking of makeRandomBets, then                  *)
(*               processWinningClaims                                      *)
(*   SpecRun     the whole script: preflight, provisioning batches, bets,  *)
(*               manageMatches, processWinningClaims                       *)
(*   SpecBatch   one batch of concurrent retryOnFail operations of one     *)
(*               principal sharing its credential cursor                   *)
(*   SpecBets    the betting loop of makeRandomBets: amounts and allowance *)
(*   SpecLongFixture  match creation to manageMatches on 21 matches        *)
(* A specification leaves the variables of the other parts unchanged.      *)
(***************************************************************************)
EXTENDS Integers, Sequences, FiniteSets, Bags, TLC

VARIABLES
    \* ---- credential rotation (src/setup.js:46-62)
    currentMainKeyIndex,   \* let currentMainKeyIndex
    currentAdminKeyIndex,  \* let currentAdminKeyIndex
    mainKeyLog,            \* history: the keys getNextMainKey has returned, in order
    adminKeyLog,           \* history: the keys getNextAdminKey has returned, in order
    \* ---- one retryOnFail run (src/setup.js:705-718)
    rPrincipal,            \* whose credential the wrapped operation binds
    maxAttempts,           \* parameter maxAttempts
    attempt,               \* loop variable attempt
    rpc,                   \* position inside retryOnFail
    opLog,                 \* history: outcome of every invocation of operation()
    delays,                \* history: number of setTimeout(delayMs) waits started
    result,                \* how retryOnFail settled: returned value or thrown error
    \* ---- the fixture and the tracker (src/setup.js:10-11, 216-221)
    matches,               \* const matches: the fixture, in file order
    matchOutcomes,         \* const matchOutcomes: cancelled, endedBetting, finished, bets
    \* ---- manageMatches (src/setup.js:461-582)
    mpc,                   \* position inside manageMatches
    matchesForEndBetting,  \* const matchesForEndBetting
    endIdx,                \* next element of the end-betting for..of loop
    matchesToCancel,       \* const matchesToCancel
    cancelIdx,             \* current element of the cancel for..of loop
    matchesToFinish,       \* const matchesToFinish (the one of manageMatches)
    finishIdx,             \* current element of the finish for..of loop
    winner,                \* const winner of the current finish iteration
    calls,                 \* history: remote operations started, with their status
    \* ---- makeRandomBets, bet tracking part (src/setup.js:410-433)
    bpc,                   \* position inside the tracking loop
    fetchIdx,              \* current element of `for (const accountId of accounts)`
    \* ---- processWinningClaims (src/setup.js:585-696)
    cpc,                   \* position inside processWinningClaims
    claimLoop,             \* which of its two loops runs: over finished or cancelled
    claimMatchIdx,         \* current element of the loop over finished / cancelled
    claimBets,             \* winningBets (597) or matchBets (631) of that element
    claimBetIdx,           \* current element of the loop over claimBets
    \* ---- the top level of the script (src/setup.js:80-213, 699-703)
    tpc,                   \* position of the top-level code
    phaseIdx,              \* which provisioning phase is launched / awaited
    balances,              \* what the balance queries of the preflight answered
    exitCode,              \* "none" while the process runs, else its exit code
    \* ---- one batch of retryOnFail operations (src/setup.js:107-126, 705-738)
    batchOps,              \* per item: its retryOnFail run (attempt, position, key)
    signed,                \* history: the credential each remote call sent was signed with
    \* ---- makeRandomBets, betting loop (src/setup.js:329-401)
    accountBetAmounts,     \* const accountBetAmounts: total wagered per account
    bettingPromises,       \* const bettingPromises: the bets issued, as a bag
    betLoop                \* accountId (as index), i and numberOfBets of the loops

keyVars == <<currentMainKeyIndex, currentAdminKeyIndex, mainKeyLog, adminKeyLog>>
retryVars == <<rPrincipal, maxAttempts, attempt, rpc, opLog, delays, result>>
manageVars == <<mpc, matchesForEndBetting, endIdx, matchesToCancel, cancelIdx,
                matchesToFinish, finishIdx, winner, calls>>
manageLocals == <<matchesForEndBetting, endIdx, matchesToCancel, cancelIdx,
                  matchesToFinish, finishIdx, winner>>
betVars == <<bpc, fetchIdx>>
claimVars == <<cpc, claimLoop, claimMatchIdx, claimBets, claimBetIdx>>
trackerVars == <<matches, matchOutcomes>>
runVars == <<tpc, phaseIdx, balances, exitCode>>
poolVars == <<batchOps, signed>>
wagerVars == <<accountBetAmounts, bettingPromises, betLoop>>
sideVars == <<runVars, poolVars, wagerVars>>
driverVars == <<trackerVars, manageVars, betVars, claimVars, sideVars>>
vars == <<keyVars, retryVars, driverVars>>

(***************************************************************************)
(* Program constants.                                                      *)
(***************************************************************************)
\* for (let i = 1; i <= 10; i++) over MAIN_ACCOUNT_KEY_i
MainKeyCount == 10
\* for (let i = 1; i <= 10; i++) over ADMIN_ACCOUNT_KEY_i
AdminKeyCount == 10
\* retryOnFail(operation, maxAttempts = 3, delayMs = 1000)
DefaultMaxAttempts == 3
\* [...matches].sort(...).slice(0, 6)
EndBettingCount == 6
\* matches.slice(-2)
CancelCount == 2
\* matchesForEndBetting.filter(...).slice(0, 4)
FinishCount == 4

(***************************************************************************)
(* Bounds of the model.                                                    *)
(***************************************************************************)
\* calls of each next-key function explored by SpecKeys
MaxKeyCalls == 23
\* largest maxAttempts argument explored by SpecRetry
MaxAttemptsArg == 4
\* operations (endBetting, cancelMatch, finishMatch, claimBet) that may
\* reject in one run
MaxFailedCalls == 2
\* bets the contract reports over all accounts in one run
MaxBets == 2
\* longest array of which every shuffle is explored
MaxShuffled == 5
\* operations of the batch explored by SpecBatch whose calls ever throw
MaxFailingItems == 1

\* the values and errors a remote call can produce
RemoteValues == {"receiptA", "receiptB"}
RemoteErrors == {"errTimeout", "errRejected"}

\* mainAccountPrivateKeys / adminAccountPrivateKeys after the loading loops:
\* slot i holds the value of MAIN_ACCOUNT_KEY_i / ADMIN_ACCOUNT_KEY_i
mainAccountPrivateKeys == [i \in 1..MainKeyCount |-> <<"MAIN_ACCOUNT_KEY", i>>]
adminAccountPrivateKeys == [i \in 1..AdminKeyCount |-> <<"ADMIN_ACCOUNT_KEY", i>>]

(***************************************************************************)
(* getNextMainKey / getNextAdminKey: read the key under the cursor, then   *)
(* advance the cursor modulo the list length. JS arrays are 0-based, the   *)
(* sequences here 1-based. The returned key is appended to the log.        *)
(***************************************************************************)
getNextMainKey_stride2 ==
    /\ mainKeyLog' = Append(mainKeyLog, mainAccountPrivateKeys[currentMainKeyIndex + 1])
    /\ currentMainKeyIndex' = (currentMainKeyIndex + 2) % Len(mainAccountPrivateKeys)

\* read and advance are split, and the advance of every second call is lost
getNextMainKey_lostAdvance ==
    /\ mainKeyLog' = Append(mainKeyLog, mainAccountPrivateKeys[currentMainKeyIndex + 1])
    /\ currentMainKeyIndex' =
          IF Len(mainKeyLog) % 2 = 1
          THEN currentMainKeyIndex
          ELSE (currentMainKeyIndex + 1) % Len(mainAccountPrivateKeys)

getNextMainKey ==
    /\ mainKeyLog' = Append(mainKeyLog, mainAccountPrivateKeys[currentMainKeyIndex + 1])
    /\ currentMainKeyIndex' = (currentMainKeyIndex + 1) % Len(mainAccountPrivateKeys)

\* the cursor is advanced without the modulo
getNextAdminKey_noWrap ==
    /\ adminKeyLog' = Append(adminKeyLog,
                             adminAccountPrivateKeys[(currentAdminKeyIndex % AdminKeyCount) + 1])
    /\ currentAdminKeyIndex' = currentAdminKeyIndex + 1

getNextAdminKey ==
    /\ adminKeyLog' = Append(adminKeyLog, adminAccountPrivateKeys[currentAdminKeyIndex + 1])
    /\ currentAdminKeyIndex' = (currentAdminKeyIndex + 1) % Len(adminAccountPrivateKeys)

(***************************************************************************)
(* The fixture and the tracker.                                            *)
(***************************************************************************)
\* a match definition of matches.json, reduced to the fields the key uses
Match(t1, t2, d) == [team_1 |-> t1, team_2 |-> t2, date |-> d]

\* `${match.team_1}-${match.team_2}-${match.date}`
MatchId(m) == m.team_1 \o "-" \o m.team_2 \o "-" \o m.date

\* the tracker as created at 216-221. cancelled and finished are the arrays
\* of the script. endedBetting is only ever read with includes (530), and
\* the order of its elements is the order in which concurrent endBetting
\* calls happen to resolve; it is kept as the set of its elements.
EmptyOutcomes ==
    [cancelled |-> <<>>, endedBetting |-> {}, finished |-> <<>>,
     bets |-> [k \in {} |-> <<>>]]

\* the keys of the fixture
AllKeys == { MatchId(matches[i]) : i \in 1..Len(matches) }

\* Array.prototype.includes
Includes(arr, x) == \E i \in 1..Len(arr) : arr[i] = x

\* matchOutcomes.finished.some((m) => m.matchId === matchId)
FinishedSome(matchId) ==
    \E i \in 1..Len(matchOutcomes.finished) : matchOutcomes.finished[i].matchId = matchId

\* arr.slice(0, n) and arr.slice(-n)
SliceHead(arr, n) == SubSeq(arr, 1, IF Len(arr) < n THEN Len(arr) ELSE n)
SliceTail(arr, n) == SubSeq(arr, IF Len(arr) < n THEN 1 ELSE Len(arr) - n + 1, Len(arr))

\* processWinningClaims not running
ClaimsIdle ==
    /\ cpc = "idle"
    /\ claimLoop = "finished"
    /\ claimMatchIdx = 1
    /\ claimBets = <<>>
    /\ claimBetIdx = 1

\* the top level and the batch not running
\* the betting loop not running
WagersIdle ==
    /\ accountBetAmounts = <<>>
    /\ bettingPromises = EmptyBag
    /\ betLoop = [account |-> 1, i |-> 0, numberOfBets |-> 0]

SideIdle ==
    /\ tpc = "idle"
    /\ phaseIdx = 1
    /\ balances = [vex |-> 0, usdc |-> 0, near |-> 0]
    /\ exitCode = "none"
    /\ batchOps = <<>>
    /\ signed = <<>>
    /\ WagersIdle

\* the driver parts not running
DriverIdle ==
    /\ matches = <<>>
    /\ matchOutcomes = EmptyOutcomes
    /\ mpc = "idle"
    /\ matchesForEndBetting = <<>>
    /\ endIdx = 1
    /\ matchesToCancel = <<>>
    /\ cancelIdx = 1
    /\ matchesToFinish = <<>>
    /\ finishIdx = 1
    /\ winner = "none"
    /\ calls = <<>>
    /\ bpc = "idle"
    /\ fetchIdx = 1
    /\ ClaimsIdle
    /\ SideIdle

\* ------------------------------------------------------------------------
\* SpecKeys: sequential calls of the two next-key functions, in any order.
\* ------------------------------------------------------------------------
RetryIdle ==
    /\ rPrincipal = "none"
    /\ maxAttempts = DefaultMaxAttempts
    /\ attempt = 1
    /\ rpc = "idle"
    /\ opLog = <<>>
    /\ delays = 0
    /\ result = [kind |-> "none"]

InitKeys ==
    /\ currentMainKeyIndex = 0
    /\ currentAdminKeyIndex = 0
    /\ mainKeyLog = <<>>
    /\ adminKeyLog = <<>>
    /\ RetryIdle
    /\ DriverIdle

CallNextMainKey ==
    /\ Len(mainKeyLog) < MaxKeyCalls
    /\ getNextMainKey
    /\ UNCHANGED <<currentAdminKeyIndex, adminKeyLog, retryVars, driverVars>>

CallNextAdminKey ==
    /\ Len(adminKeyLog) < MaxKeyCalls
    /\ getNextAdminKey
    /\ UNCHANGED <<currentMainKeyIndex, mainKeyLog, retryVars, driverVars>>

NextKeys == CallNextMainKey \/ CallNextAdminKey

SpecKeys == InitKeys /\ [][NextKeys]_vars

\* number of positions of log s that hold key k
RECURSIVE Uses(_, _)
Uses(s, k) ==
    IF s = <<>> THEN 0
    ELSE (IF Head(s) = k THEN 1 ELSE 0) + Uses(Tail(s), k)

CeilDiv(n, p) == (n + p - 1) \div p

Balanced(log, keys) ==
    \A i \in 1..Len(keys) :
        /\ Uses(log, keys[i]) >= Len(log) \div Len(keys)
        /\ Uses(log, keys[i]) <= CeilDiv(Len(log), Len(keys))

Periodic(log, p) ==
    \A i \in 1..Len(log) : i + p <= Len(log) => log[i] = log[i + p]

\* C1: after any N sequential calls of getNextMainKey (getNextAdminKey) every one
\* of the P keys has been returned floor(N/P) or ceil(N/P) times, and the
\* returned sequence has period P.
C1_RoundRobin ==
    /\ Balanced(mainKeyLog, mainAccountPrivateKeys)
    /\ Periodic(mainKeyLog, MainKeyCount)
    /\ Balanced(adminKeyLog, adminAccountPrivateKeys)
    /\ Periodic(adminKeyLog, AdminKeyCount)

\* two full rounds and a partial third for main, a partial round for admin
C1_Witness ==
    /\ Len(mainKeyLog) = 2 * MainKeyCount + 3
    /\ Len(adminKeyLog) = AdminKeyCount + 1
    /\ mainKeyLog[MainKeyCount + 1] = mainAccountPrivateKeys[1]
    /\ adminKeyLog[AdminKeyCount + 1] = adminAccountPrivateKeys[1]

\* position in its list (0-based, as the cursor) of a returned key
Position(k) == k[2] - 1

\* every acquisition returns the key after the one the acquisition before it
\* returned, and leaves the cursor after the key it returned
AdvancedEachTime(log, cursor, p) ==
    /\ \A i \in 1..(Len(log) - 1) : Position(log[i + 1]) = (Position(log[i]) + 1) % p
    /\ log # <<>> => cursor = (Position(log[Len(log)]) + 1) % p

\* any p consecutive acquisitions return p distinct keys
WindowDistinct(log, p) ==
    \A i, j \in 1..Len(log) : (i < j /\ j - i < p) => log[i] # log[j]

\* C16: whatever the order in which the pending operations of the two
\* principals acquire their credentials, an acquisition reads and advances
\* the cursor in one step: no position is handed out twice without the
\* cursor having advanced, and any P consecutive acquisitions of a principal
\* return P distinct credentials.
C16_AtomicAcquisition ==
    /\ AdvancedEachTime(mainKeyLog, currentMainKeyIndex, MainKeyCount)
    /\ WindowDistinct(mainKeyLog, MainKeyCount)
    /\ AdvancedEachTime(adminKeyLog, currentAdminKeyIndex, AdminKeyCount)
    /\ WindowDistinct(adminKeyLog, AdminKeyCount)

\* acquisitions of the two principals interleaved, P of the main account in
\* a row among them and the cursor of the main account back at its start
C16_Witness ==
    /\ Len(mainKeyLog) = MainKeyCount
    /\ Len(adminKeyLog) = 2
    /\ currentMainKeyIndex = 0
    /\ currentAdminKeyIndex = 2
    /\ { mainKeyLog[i] : i \in 1..MainKeyCount } =
           { mainAccountPrivateKeys[i] : i \in 1..MainKeyCount }

\* C18: in every reachable state each cursor is an integer in [0, P), where
\* P >= 1 is the length of that principal's key list.
C18_CursorInRange ==
    /\ Len(mainAccountPrivateKeys) >= 1
    /\ Len(adminAccountPrivateKeys) >= 1
    /\ currentMainKeyIndex \in 0..(Len(mainAccountPrivateKeys) - 1)
    /\ currentAdminKeyIndex \in 0..(Len(adminAccountPrivateKeys) - 1)

\* both cursors have wrapped: the last key of each list has been returned and
\* the cursor is back at 0
C18_Witness ==
    /\ Len(mainKeyLog) = 2 * MainKeyCount
    /\ Len(adminKeyLog) = AdminKeyCount
    /\ currentMainKeyIndex = 0
    /\ currentAdminKeyIndex = 0
    /\ adminKeyLog[AdminKeyCount] = adminAccountPrivateKeys[AdminKeyCount]

\* ------------------------------------------------------------------------
\* SpecRetry: one run of retryOnFail(operation, maxAttempts) around one of the
\* script's remote operations. Every operation passed to retryOnFail binds a
\* connection with a credential (the next main key, the next admin key, or
\* the fixed account key of bet/claimBet) and then makes one remote call.
\* The remote service decides whether the call returns or throws.
\* ------------------------------------------------------------------------
Principals == {"main", "admin", "account"}

InitRetry ==
    /\ currentMainKeyIndex \in 0..(MainKeyCount - 1)
    /\ currentAdminKeyIndex = 0
    /\ mainKeyLog = <<>>
    /\ adminKeyLog = <<>>
    /\ rPrincipal \in Principals
    \* the script always passes the default; the model also explores other
    \* positive values (the loop body never runs for maxAttempts < 1)
    /\ maxAttempts \in 1..MaxAttemptsArg
    /\ attempt = 1
    /\ rpc = "loop"
    /\ opLog = <<>>
    /\ delays = 0
    /\ result = [kind |-> "none"]
    /\ DriverIdle

\* `return await operation()`: the operation starts, takes its credential
\* and sends the remote call (createAccount 722-737, cancelMatch 225-239, ...)
InvokeOperation ==
    /\ rpc = "loop"
    /\ attempt <= maxAttempts
    /\ \/ rPrincipal = "main" /\ getNextMainKey
             /\ UNCHANGED <<currentAdminKeyIndex, adminKeyLog>>
       \/ rPrincipal = "admin" /\ getNextAdminKey
             /\ UNCHANGED <<currentMainKeyIndex, mainKeyLog>>
       \/ rPrincipal = "account" /\ UNCHANGED keyVars
    /\ rpc' = "await"
    /\ UNCHANGED <<rPrincipal, maxAttempts, attempt, opLog, delays, result,
                   driverVars>>

\* the awaited operation resolves: retryOnFail returns its value
OperationReturns_undefined ==
    /\ rpc = "await"
    /\ \E v \in RemoteValues :
        /\ opLog' = Append(opLog, [ok |-> TRUE, val |-> v])
        /\ result' = [kind |-> "return", val |-> "undefined"]
    /\ rpc' = "done"
    /\ UNCHANGED <<keyVars, rPrincipal, maxAttempts, attempt, delays,
                   driverVars>>

OperationReturns ==
    /\ rpc = "await"
    /\ \E v \in RemoteValues :
        /\ opLog' = Append(opLog, [ok |-> TRUE, val |-> v])
        /\ result' = [kind |-> "return", val |-> v]
    /\ rpc' = "done"
    /\ UNCHANGED <<keyVars, rPrincipal, maxAttempts, attempt, delays,
                   driverVars>>

\* the awaited operation rejects: the catch block either rethrows (last
\* attempt) or starts the fixed delay
OperationThrows_offByOne ==
    /\ rpc = "await"
    /\ \E e \in RemoteErrors :
        /\ opLog' = Append(opLog, [ok |-> FALSE, val |-> e])
        /\ IF attempt + 1 >= maxAttempts
           THEN /\ result' = [kind |-> "throw", val |-> e]
                /\ rpc' = "done"
                /\ UNCHANGED delays
           ELSE /\ delays' = delays + 1
                /\ rpc' = "delay"
                /\ UNCHANGED result
    /\ UNCHANGED <<keyVars, rPrincipal, maxAttempts, attempt,
                   driverVars>>

OperationThrows ==
    /\ rpc = "await"
    /\ \E e \in RemoteErrors :
        /\ opLog' = Append(opLog, [ok |-> FALSE, val |-> e])
        /\ IF attempt = maxAttempts
           THEN /\ result' = [kind |-> "throw", val |-> e]
                /\ rpc' = "done"
                /\ UNCHANGED delays
           ELSE /\ delays' = delays + 1
                /\ rpc' = "delay"
                /\ UNCHANGED result
    /\ UNCHANGED <<keyVars, rPrincipal, maxAttempts, attempt,
                   driverVars>>

\* the delay elapses: attempt++ and back to the loop head
DelayElapsed ==
    /\ rpc = "delay"
    /\ attempt' = attempt + 1
    /\ rpc' = "loop"
    /\ UNCHANGED <<keyVars, rPrincipal, maxAttempts, opLog, delays, result,
                   driverVars>>

NextRetry == InvokeOperation \/ OperationReturns \/ OperationThrows \/ DelayElapsed

SpecRetry == InitRetry /\ [][NextRetry]_vars

\* number of failed invocations in the log
RECURSIVE Failures(_)
Failures(s) ==
    IF s = <<>> THEN 0
    ELSE (IF Head(s).ok THEN 0 ELSE 1) + Failures(Tail(s))

\* C2: when the operation fails k < maxAttempts times and then succeeds,
\* retryOnFail returns that success value after exactly k+1 invocations and
\* exactly k delays (none after the success).
C2_RetryThenSuccess ==
    (rpc = "done" /\ opLog # <<>> /\ opLog[Len(opLog)].ok) =>
        /\ result = [kind |-> "return", val |-> opLog[Len(opLog)].val]
        /\ Failures(opLog) = Len(opLog) - 1
        /\ Len(opLog) <= maxAttempts
        /\ delays = Failures(opLog)

\* the default three attempts: two failures, then a success
C2_Witness ==
    /\ rpc = "done"
    /\ maxAttempts = DefaultMaxAttempts
    /\ Len(opLog) = 3
    /\ ~opLog[1].ok /\ ~opLog[2].ok /\ opLog[3].ok
    /\ result = [kind |-> "return", val |-> "receiptB"]
    /\ delays = 2

\* C3: when every invocation fails, retryOnFail invokes the operation
\* exactly maxAttempts times, waits only between attempts (maxAttempts - 1
\* delays, none after the last failure) and throws the last attempt's error.
C3_RetryExhausted ==
    /\ Len(opLog) <= maxAttempts
    /\ (rpc = "done" /\ Failures(opLog) = Len(opLog)) =>
        /\ Len(opLog) = maxAttempts
        /\ delays = maxAttempts - 1
        /\ result = [kind |-> "throw", val |-> opLog[Len(opLog)].val]
    /\ (Failures(opLog) = Len(opLog) /\ Len(opLog) < maxAttempts) => rpc # "done"

\* three failures with the default, the last error differing from the first
C3_Witness ==
    /\ rpc = "done"
    /\ maxAttempts = DefaultMaxAttempts
    /\ Len(opLog) = 3
    /\ Failures(opLog) = 3
    /\ opLog[1].val = "errTimeout"
    /\ opLog[3].val = "errRejected"
    /\ result = [kind |-> "throw", val |-> "errRejected"]
    /\ delays = 2

\* ------------------------------------------------------------------------
\* SpecManage: manageMatches (461-582) on a fixture. endBetting, cancelMatch
\* and finishMatch are retryOnFail runs (SpecRetry); here each is one
\* operation that is started, stays pending over all its attempts, and then
\* resolves or rejects as the remote service decides.
\* ------------------------------------------------------------------------
\* Fixtures explored. Keys are not checked for uniqueness by the script, and
\* team names containing "-" make distinct matches share a key.
FixtureUnique ==
    << Match("A", "B", "d1"), Match("C", "D", "d1"), Match("E", "F", "d1"),
       Match("G", "H", "d2"), Match("I", "J", "d2") >>
FixtureTailCollision ==
    << Match("A", "B", "d1"), Match("C", "D", "d1"),
       Match("X-Y", "Z", "d3"), Match("X", "Y-Z", "d3") >>
FixtureRepeatedEntry ==
    << Match("A", "B", "d1"), Match("A", "B", "d1"),
       Match("G", "H", "d2"), Match("I", "J", "d2") >>
FixtureCrossCollision ==
    << Match("X-Y", "Z", "d3"), Match("C", "D", "d1"),
       Match("G", "H", "d2"), Match("X", "Y-Z", "d3") >>
Fixtures ==
    {FixtureUnique, FixtureTailCollision, FixtureRepeatedEntry, FixtureCrossCollision}

Teams == {"Team1", "Team2"}

\* [...arr].sort(() => Math.random() - 0.5).slice(0, n): the comparator is
\* random, so the sorted copy is some permutation of arr; its first n
\* elements are any n distinct positions of arr in any order
ShuffledHead(arr, n) ==
    LET k == IF Len(arr) < n THEN Len(arr) ELSE n
    IN  IF Len(arr) <= MaxShuffled
        THEN { [i \in 1..k |-> arr[f[i]]] :
                 f \in { g \in [1..k -> 1..Len(arr)] :
                           \A a, b \in 1..k : a # b => g[a] # g[b] } }
        \* of a longer array two permutations are explored: the array as it
        \* is, and reversed
        ELSE { [i \in 1..k |-> arr[i]], [i \in 1..k |-> arr[Len(arr) + 1 - i]] }

Call(method, matchId, w) ==
    [method |-> method, matchId |-> matchId, winner |-> w, status |-> "pending"]

FailedCalls == Cardinality({ i \in 1..Len(calls) : calls[i].status = "failed" })

Pending(method) ==
    { i \in 1..Len(calls) : calls[i].method = method /\ calls[i].status = "pending" }

InitManage ==
    /\ currentMainKeyIndex = 0
    /\ currentAdminKeyIndex = 0
    /\ mainKeyLog = <<>>
    /\ adminKeyLog = <<>>
    /\ RetryIdle
    /\ matches \in Fixtures
    /\ matchOutcomes = EmptyOutcomes
    /\ mpc = "start"
    /\ matchesForEndBetting = <<>>
    /\ endIdx = 1
    /\ matchesToCancel = <<>>
    /\ cancelIdx = 1
    /\ matchesToFinish = <<>>
    /\ finishIdx = 1
    /\ winner = "none"
    /\ calls = <<>>
    /\ bpc = "idle"
    /\ fetchIdx = 1
    /\ ClaimsIdle
    /\ SideIdle

\* 465-467: shuffle a copy of matches, take the first 6
ShuffleMatches ==
    /\ mpc = "start"
    /\ matchesForEndBetting' \in ShuffledHead(matches, EndBettingCount)
    /\ endIdx' = 1
    /\ mpc' = "endBetting"
    /\ UNCHANGED <<keyVars, retryVars, sideVars, betVars, claimVars, trackerVars, matchesToCancel, cancelIdx,
                   matchesToFinish, finishIdx, winner, calls>>

\* 475-490: one iteration of the loop starts endBetting(matchId) without
\* awaiting it, then sleeps 1000 ms
StartEndBetting ==
    /\ mpc = "endBetting"
    /\ endIdx <= Len(matchesForEndBetting)
    /\ calls' = Append(calls,
                       Call("end_betting", MatchId(matchesForEndBetting[endIdx]), "none"))
    /\ endIdx' = endIdx + 1
    /\ UNCHANGED <<keyVars, retryVars, sideVars, betVars, claimVars, trackerVars, mpc, matchesForEndBetting,
                   matchesToCancel, cancelIdx, matchesToFinish, finishIdx, winner>>

\* 480-483: .then of a pending endBetting
EndBettingResolves ==
    /\ \E i \in Pending("end_betting") :
        /\ calls' = [calls EXCEPT ![i].status = "ok"]
        /\ matchOutcomes' =
             [matchOutcomes EXCEPT !.endedBetting = @ \cup {calls[i].matchId}]
    /\ UNCHANGED <<keyVars, retryVars, sideVars, betVars, claimVars, matches, mpc, matchesForEndBetting, endIdx,
                   matchesToCancel, cancelIdx, matchesToFinish, finishIdx, winner>>

\* 484-486: .catch of a pending endBetting
EndBettingRejects ==
    /\ FailedCalls < MaxFailedCalls
    /\ \E i \in Pending("end_betting") :
        calls' = [calls EXCEPT ![i].status = "failed"]
    /\ UNCHANGED <<keyVars, retryVars, sideVars, betVars, claimVars, trackerVars, mpc, matchesForEndBetting, endIdx,
                   matchesToCancel, cancelIdx, matchesToFinish, finishIdx, winner>>

\* the end_betting calls are not awaited
AwaitAllEndBetting_early ==
    /\ mpc = "endBetting"
    /\ endIdx > Len(matchesForEndBetting)
    /\ matchesToCancel' = SliceTail(matches, CancelCount)
    /\ cancelIdx' = 1
    /\ mpc' = "cancel"
    /\ UNCHANGED <<keyVars, retryVars, sideVars, betVars, claimVars, trackerVars, matchesForEndBetting, endIdx,
                   matchesToFinish, finishIdx, winner, calls>>

\* 492-505: Promise.all(endBettingPromises), the 10 s delay, matches.slice(-2)
AwaitAllEndBetting ==
    /\ mpc = "endBetting"
    /\ endIdx > Len(matchesForEndBetting)
    /\ Pending("end_betting") = {}
    /\ matchesToCancel' = SliceTail(matches, CancelCount)
    /\ cancelIdx' = 1
    /\ mpc' = "cancel"
    /\ UNCHANGED <<keyVars, retryVars, sideVars, betVars, claimVars, trackerVars, matchesForEndBetting, endIdx,
                   matchesToFinish, finishIdx, winner, calls>>

\* 507-510: await cancelMatch(matchId)
StartCancel ==
    /\ mpc = "cancel"
    /\ cancelIdx <= Len(matchesToCancel)
    /\ calls' = Append(calls, Call("cancel_match", MatchId(matchesToCancel[cancelIdx]), "none"))
    /\ mpc' = "cancelAwait"
    /\ UNCHANGED <<keyVars, retryVars, sideVars, betVars, claimVars, trackerVars, matchesForEndBetting, endIdx,
                   matchesToCancel, cancelIdx, matchesToFinish, finishIdx, winner>>

CancelResolves_noRecord ==
    /\ mpc = "cancelAwait"
    /\ calls' = [calls EXCEPT ![Len(calls)].status = "ok"]
    /\ cancelIdx' = cancelIdx + 1
    /\ mpc' = "cancel"
    /\ UNCHANGED <<keyVars, retryVars, sideVars, betVars, claimVars, trackerVars, matchesForEndBetting, endIdx,
                   matchesToCancel, matchesToFinish, finishIdx, winner>>

\* 511-514: cancelMatch resolved
CancelResolves ==
    /\ mpc = "cancelAwait"
    /\ calls' = [calls EXCEPT ![Len(calls)].status = "ok"]
    /\ matchOutcomes' =
         [matchOutcomes EXCEPT !.cancelled = Append(@, MatchId(matchesToCancel[cancelIdx]))]
    /\ cancelIdx' = cancelIdx + 1
    /\ mpc' = "cancel"
    /\ UNCHANGED <<keyVars, retryVars, sideVars, betVars, claimVars, matches, matchesForEndBetting, endIdx,
                   matchesToCancel, matchesToFinish, finishIdx, winner>>

\* the key is recorded although cancelMatch rejected
CancelRejects_recordsAnyway ==
    /\ mpc = "cancelAwait"
    /\ FailedCalls < MaxFailedCalls
    /\ calls' = [calls EXCEPT ![Len(calls)].status = "failed"]
    /\ matchOutcomes' =
         [matchOutcomes EXCEPT !.cancelled = Append(@, MatchId(matchesToCancel[cancelIdx]))]
    /\ cancelIdx' = cancelIdx + 1
    /\ mpc' = "cancel"
    /\ UNCHANGED <<keyVars, retryVars, sideVars, betVars, claimVars, matches, matchesForEndBetting, endIdx,
                   matchesToCancel, matchesToFinish, finishIdx, winner>>

\* 515-517: cancelMatch rejected
CancelRejects ==
    /\ mpc = "cancelAwait"
    /\ FailedCalls < MaxFailedCalls
    /\ calls' = [calls EXCEPT ![Len(calls)].status = "failed"]
    /\ cancelIdx' = cancelIdx + 1
    /\ mpc' = "cancel"
    /\ UNCHANGED <<keyVars, retryVars, sideVars, betVars, claimVars, trackerVars, matchesForEndBetting, endIdx,
                   matchesToCancel, matchesToFinish, finishIdx, winner>>

FinishFilter_noEndedCheck(match) ==
    LET matchId == MatchId(match)
    IN  /\ ~Includes(matchOutcomes.cancelled, matchId)
        /\ ~FinishedSome(matchId)

FinishFilter_noCancelledCheck(match) ==
    LET matchId == MatchId(match)
    IN  /\ matchId \in matchOutcomes.endedBetting
        /\ ~FinishedSome(matchId)

\* 526-534: the filter callback
FinishFilter(match) ==
    LET matchId == MatchId(match)
    IN  /\ matchId \in matchOutcomes.endedBetting
        /\ ~Includes(matchOutcomes.cancelled, matchId)
        /\ ~FinishedSome(matchId)

SelectMatchesToFinish_noSlice ==
    /\ mpc = "cancel"
    /\ cancelIdx > Len(matchesToCancel)
    /\ matchesToFinish' = SelectSeq(matchesForEndBetting, FinishFilter)
    /\ finishIdx' = 1
    /\ mpc' = "finish"
    /\ UNCHANGED <<keyVars, retryVars, sideVars, betVars, claimVars, trackerVars, matchesForEndBetting, endIdx,
                   matchesToCancel, cancelIdx, winner, calls>>

\* 520-535: the 10 s delay, then filter and slice(0, 4)
SelectMatchesToFinish ==
    /\ mpc = "cancel"
    /\ cancelIdx > Len(matchesToCancel)
    /\ matchesToFinish' = SliceHead(SelectSeq(matchesForEndBetting, FinishFilter), FinishCount)
    /\ finishIdx' = 1
    /\ mpc' = "finish"
    /\ UNCHANGED <<keyVars, retryVars, sideVars, betVars, claimVars, trackerVars, matchesForEndBetting, endIdx,
                   matchesToCancel, cancelIdx, winner, calls>>

\* 546-551: the match was finished in an earlier iteration: continue
SkipFinished ==
    /\ mpc = "finish"
    /\ finishIdx <= Len(matchesToFinish)
    /\ FinishedSome(MatchId(matchesToFinish[finishIdx]))
    /\ finishIdx' = finishIdx + 1
    /\ UNCHANGED <<keyVars, retryVars, sideVars, betVars, claimVars, trackerVars, mpc, matchesForEndBetting, endIdx,
                   matchesToCancel, cancelIdx, matchesToFinish, winner, calls>>

StartFinish_noRecheck ==
    /\ mpc = "finish"
    /\ finishIdx <= Len(matchesToFinish)
    /\ \E w \in Teams :
        /\ winner' = w
        /\ calls' = Append(calls, Call("finish_match", MatchId(matchesToFinish[finishIdx]), w))
    /\ mpc' = "finishAwait"
    /\ UNCHANGED <<keyVars, retryVars, sideVars, betVars, claimVars, trackerVars, matchesForEndBetting, endIdx,
                   matchesToCancel, cancelIdx, matchesToFinish, finishIdx>>

\* 553-558: draw the winner, await finishMatch(matchId, winner)
StartFinish ==
    /\ mpc = "finish"
    /\ finishIdx <= Len(matchesToFinish)
    /\ ~FinishedSome(MatchId(matchesToFinish[finishIdx]))
    /\ \E w \in Teams :
        /\ winner' = w
        /\ calls' = Append(calls, Call("finish_match", MatchId(matchesToFinish[finishIdx]), w))
    /\ mpc' = "finishAwait"
    /\ UNCHANGED <<keyVars, retryVars, sideVars, betVars, claimVars, trackerVars, matchesForEndBetting, endIdx,
                   matchesToCancel, cancelIdx, matchesToFinish, finishIdx>>

\* 559-562, 568: finishMatch resolved
FinishResolves ==
    /\ mpc = "finishAwait"
    /\ calls' = [calls EXCEPT ![Len(calls)].status = "ok"]
    /\ matchOutcomes' =
         [matchOutcomes EXCEPT !.finished =
             Append(@, [matchId |-> MatchId(matchesToFinish[finishIdx]), winner |-> winner])]
    /\ finishIdx' = finishIdx + 1
    /\ mpc' = "finish"
    /\ UNCHANGED <<keyVars, retryVars, sideVars, betVars, claimVars, matches, matchesForEndBetting, endIdx,
                   matchesToCancel, cancelIdx, matchesToFinish, winner>>

\* 563-568: finishMatch rejected
FinishRejects ==
    /\ mpc = "finishAwait"
    /\ FailedCalls < MaxFailedCalls
    /\ calls' = [calls EXCEPT ![Len(calls)].status = "failed"]
    /\ finishIdx' = finishIdx + 1
    /\ mpc' = "finish"
    /\ UNCHANGED <<keyVars, retryVars, sideVars, betVars, claimVars, trackerVars, matchesForEndBetting, endIdx,
                   matchesToCancel, cancelIdx, matchesToFinish, winner>>

\* 574-582: the loop is over, manageMatches returns
ManageReturns ==
    /\ mpc = "finish"
    /\ finishIdx > Len(matchesToFinish)
    /\ mpc' = "done"
    \* the locals of manageMatches end with the call
    /\ matchesForEndBetting' = <<>>
    /\ endIdx' = 1
    /\ matchesToCancel' = <<>>
    /\ cancelIdx' = 1
    /\ matchesToFinish' = <<>>
    /\ finishIdx' = 1
    /\ winner' = "none"
    /\ UNCHANGED <<keyVars, retryVars, sideVars, betVars, claimVars, trackerVars, calls>>

NextManage ==
    \/ ShuffleMatches
    \/ StartEndBetting
    \/ EndBettingResolves
    \/ EndBettingRejects
    \/ AwaitAllEndBetting
    \/ StartCancel
    \/ CancelResolves
    \/ CancelRejects
    \/ SelectMatchesToFinish
    \/ SkipFinished
    \/ StartFinish
    \/ FinishResolves
    \/ FinishRejects
    \/ ManageReturns

SpecManage == InitManage /\ [][NextManage]_vars

\* ------------------------------------------------------------------------
\* SpecClaims: the bet tracking at the end of makeRandomBets (410-433), then
\* manageMatches (702), then processWinningClaims (703), on small fixtures.
\* ------------------------------------------------------------------------
\* newAccounts: the script creates 10 accounts (108-117); two are tracked
newAccounts == <<"user-1.testnet", "user-2.testnet">>

ClaimFixtures ==
    { << Match("A", "B", "d1"), Match("C", "D", "d1") >>,
      << Match("X-Y", "Z", "d3"), Match("X", "Y-Z", "d3") >> }

\* a bet id on the wire is a decimal numeral, here its sequence of digits
RECURSIVE toString(_)
toString(n) == IF n < 10 THEN <<n>> ELSE Append(toString(n \div 10), n % 10)

\* parseInt of a decimal numeral
RECURSIVE ParseInt(_)
ParseInt(digits) ==
    IF digits = <<>> THEN 0
    ELSE 10 * ParseInt(SubSeq(digits, 1, Len(digits) - 1)) + digits[Len(digits)]

\* bets recorded in the tracker
RECURSIVE BetCount(_)
BetCount(bets) ==
    IF DOMAIN bets = {} THEN 0
    ELSE LET k == CHOOSE x \in DOMAIN bets : TRUE
         IN  Len(bets[k]) + BetCount([y \in DOMAIN bets \ {k} |-> bets[y]])

\* what get_users_bets can answer: a list of [betId, bet] pairs; the contract
\* numbers its bets, so ids are distinct, and a bet names a match and a team
UserBetsAnswers(firstId, room) ==
    UNION { { [i \in 1..n |->
                 [betId |-> toString(firstId + i - 1),
                  bet |-> [match_id |-> c[i][1], team |-> c[i][2]]]] :
              c \in [1..n -> AllKeys \X Teams] } : n \in 0..room }

\* 418-429: the loop over userBets; amount is recorded only to be printed
\* and is left out
RECURSIVE TrackUserBets(_, _, _)
TrackUserBets(bets, accountId, userBets) ==
    IF userBets = <<>> THEN bets
    ELSE LET matchId == Head(userBets).bet.match_id
             entry == [betId |-> ParseInt(Head(userBets).betId),
                       accountId |-> accountId,
                       team |-> Head(userBets).bet.team]
             old == IF matchId \in DOMAIN bets THEN bets[matchId] ELSE <<>>
         IN  TrackUserBets(
                 [k \in DOMAIN bets \cup {matchId} |->
                     IF k = matchId THEN Append(old, entry) ELSE bets[k]],
                 accountId, Tail(userBets))

\* matchOutcomes.bets[matchId] || []
MatchBets(matchId) ==
    IF matchId \in DOMAIN matchOutcomes.bets THEN matchOutcomes.bets[matchId] ELSE <<>>

\* claimBet(accountId, betId): bet_id is betId.toString()
ClaimCall(bet) ==
    [method |-> "claim", accountId |-> bet.accountId, bet_id |-> toString(bet.betId),
     status |-> "pending"]

InitClaims ==
    /\ currentMainKeyIndex = 0
    /\ currentAdminKeyIndex = 0
    /\ mainKeyLog = <<>>
    /\ adminKeyLog = <<>>
    /\ RetryIdle
    /\ matches \in ClaimFixtures
    /\ matchOutcomes = EmptyOutcomes
    /\ mpc = "idle"
    /\ matchesForEndBetting = <<>>
    /\ endIdx = 1
    /\ matchesToCancel = <<>>
    /\ cancelIdx = 1
    /\ matchesToFinish = <<>>
    /\ finishIdx = 1
    /\ winner = "none"
    /\ calls = <<>>
    /\ bpc = "fetch"
    /\ fetchIdx = 1
    /\ ClaimsIdle
    /\ SideIdle

\* 412-429: getUserBets(accountId) answers, its bets are tracked
GetUserBetsReturns ==
    /\ bpc = "fetch"
    /\ fetchIdx <= Len(newAccounts)
    /\ \E userBets \in UserBetsAnswers(BetCount(matchOutcomes.bets) + 1,
                                       MaxBets - BetCount(matchOutcomes.bets)) :
        matchOutcomes' =
            [matchOutcomes EXCEPT
                !.bets = TrackUserBets(@, newAccounts[fetchIdx], userBets)]
    /\ fetchIdx' = fetchIdx + 1
    /\ UNCHANGED <<keyVars, retryVars, sideVars, matches, manageVars, bpc, claimVars>>

\* 430-432: getUserBets(accountId) throws
GetUserBetsThrows ==
    /\ bpc = "fetch"
    /\ fetchIdx <= Len(newAccounts)
    /\ fetchIdx' = fetchIdx + 1
    /\ UNCHANGED <<keyVars, retryVars, sideVars, trackerVars, manageVars, bpc, claimVars>>

\* 435-458, 702: makeRandomBets returns, manageMatches is called
CallManageMatches ==
    /\ bpc = "fetch"
    /\ fetchIdx > Len(newAccounts)
    /\ bpc' = "done"
    /\ mpc' = "start"
    /\ UNCHANGED <<keyVars, retryVars, sideVars, trackerVars, manageLocals, calls, fetchIdx,
                   claimVars>>

\* 703, 585-586: manageMatches has returned, processWinningClaims is called
CallProcessWinningClaims ==
    /\ mpc = "done"
    /\ cpc = "idle"
    /\ cpc' = "matches"
    /\ claimLoop' = "finished"
    /\ claimMatchIdx' = 1
    /\ UNCHANGED <<keyVars, retryVars, sideVars, trackerVars, manageVars, betVars, claimBets,
                   claimBetIdx>>

\* 597: (bet) => bet.team === winner
IsWinningBet_anyTeam(bet, w) == TRUE

IsWinningBet(bet, w) == bet.team = w

\* 589-598: next finished match, its winning bets
NextFinishedMatch ==
    /\ cpc = "matches"
    /\ claimLoop = "finished"
    /\ claimMatchIdx <= Len(matchOutcomes.finished)
    /\ LET matchId == matchOutcomes.finished[claimMatchIdx].matchId
           w == matchOutcomes.finished[claimMatchIdx].winner
           Winning(bet) == IsWinningBet(bet, w)
       IN  claimBets' = SelectSeq(MatchBets(matchId), Winning)
    /\ claimBetIdx' = 1
    /\ cpc' = "bets"
    /\ UNCHANGED <<keyVars, retryVars, sideVars, trackerVars, manageVars, betVars, claimLoop,
                   claimMatchIdx>>

\* 626-629: the loop over finished is over, the loop over cancelled begins
FinishedMatchesDone ==
    /\ cpc = "matches"
    /\ claimLoop = "finished"
    /\ claimMatchIdx > Len(matchOutcomes.finished)
    /\ claimLoop' = "cancelled"
    /\ claimMatchIdx' = 1
    /\ UNCHANGED <<keyVars, retryVars, sideVars, trackerVars, manageVars, betVars, cpc, claimBets,
                   claimBetIdx>>

\* 629-632: next cancelled match, all its bets
NextCancelledMatch_noBets ==
    /\ cpc = "matches"
    /\ claimLoop = "cancelled"
    /\ claimMatchIdx <= Len(matchOutcomes.cancelled)
    /\ claimBets' = <<>>
    /\ claimBetIdx' = 1
    /\ cpc' = "bets"
    /\ UNCHANGED <<keyVars, retryVars, sideVars, trackerVars, manageVars, betVars, claimLoop,
                   claimMatchIdx>>

NextCancelledMatch ==
    /\ cpc = "matches"
    /\ claimLoop = "cancelled"
    /\ claimMatchIdx <= Len(matchOutcomes.cancelled)
    /\ claimBets' = MatchBets(matchOutcomes.cancelled[claimMatchIdx])
    /\ claimBetIdx' = 1
    /\ cpc' = "bets"
    /\ UNCHANGED <<keyVars, retryVars, sideVars, trackerVars, manageVars, betVars, claimLoop,
                   claimMatchIdx>>

\* 662-696: the loop over cancelled is over, processWinningClaims returns
ProcessWinningClaimsReturns ==
    /\ cpc = "matches"
    /\ claimLoop = "cancelled"
    /\ claimMatchIdx > Len(matchOutcomes.cancelled)
    /\ cpc' = "done"
    /\ claimMatchIdx' = 1
    /\ UNCHANGED <<keyVars, retryVars, sideVars, trackerVars, manageVars, betVars, claimLoop,
                   claimBets, claimBetIdx>>

\* 601-606 (finished), 635-640 (cancelled): await claimBet(bet.accountId, bet.betId)
StartClaim ==
    /\ cpc = "bets"
    /\ claimBetIdx <= Len(claimBets)
    /\ calls' = Append(calls, ClaimCall(claimBets[claimBetIdx]))
    /\ cpc' = "claim"
    /\ UNCHANGED <<keyVars, retryVars, sideVars, trackerVars, mpc, manageLocals, betVars,
                   claimLoop, claimMatchIdx, claimBets, claimBetIdx>>

\* 625-626, 661-662: the bets of this match are done
MatchBetsDone ==
    /\ cpc = "bets"
    /\ claimBetIdx > Len(claimBets)
    /\ claimMatchIdx' = claimMatchIdx + 1
    /\ claimBets' = <<>>
    /\ claimBetIdx' = 1
    /\ cpc' = "matches"
    /\ UNCHANGED <<keyVars, retryVars, sideVars, trackerVars, manageVars, betVars, claimLoop>>

\* 607-609, 641-643: the claim resolved
ClaimResolves ==
    /\ cpc = "claim"
    /\ calls' = [calls EXCEPT ![Len(calls)].status = "ok"]
    /\ claimBetIdx' = claimBetIdx + 1
    /\ cpc' = "bets"
    /\ UNCHANGED <<keyVars, retryVars, sideVars, trackerVars, mpc, manageLocals, betVars,
                   claimLoop, claimMatchIdx, claimBets>>

\* 610-616, 644-650: the claim rejected; after 2 s claimBet is called again
ClaimRejects ==
    /\ cpc = "claim"
    /\ FailedCalls < MaxFailedCalls
    /\ calls' = Append([calls EXCEPT ![Len(calls)].status = "failed"],
                       ClaimCall(claimBets[claimBetIdx]))
    /\ cpc' = "retry"
    /\ UNCHANGED <<keyVars, retryVars, sideVars, trackerVars, mpc, manageLocals, betVars,
                   claimLoop, claimMatchIdx, claimBets, claimBetIdx>>

\* 617, 651-653: the second claimBet resolved
ClaimRetryResolves ==
    /\ cpc = "retry"
    /\ calls' = [calls EXCEPT ![Len(calls)].status = "ok"]
    /\ claimBetIdx' = claimBetIdx + 1
    /\ cpc' = "bets"
    /\ UNCHANGED <<keyVars, retryVars, sideVars, trackerVars, mpc, manageLocals, betVars,
                   claimLoop, claimMatchIdx, claimBets>>

\* the second rejection leaves processWinningClaims
ClaimRetryRejects_stopsClaims ==
    /\ cpc = "retry"
    /\ FailedCalls < MaxFailedCalls
    /\ calls' = [calls EXCEPT ![Len(calls)].status = "failed"]
    /\ claimBetIdx' = claimBetIdx + 1
    /\ cpc' = "done"
    /\ UNCHANGED <<keyVars, retryVars, sideVars, trackerVars, mpc, manageLocals, betVars,
                   claimLoop, claimMatchIdx, claimBets>>

\* 618-623, 654-659: the second claimBet rejected
ClaimRetryRejects ==
    /\ cpc = "retry"
    /\ FailedCalls < MaxFailedCalls
    /\ calls' = [calls EXCEPT ![Len(calls)].status = "failed"]
    /\ claimBetIdx' = claimBetIdx + 1
    /\ cpc' = "bets"
    /\ UNCHANGED <<keyVars, retryVars, sideVars, trackerVars, mpc, manageLocals, betVars,
                   claimLoop, claimMatchIdx, claimBets>>

NextClaims ==
    \/ GetUserBetsReturns
    \/ GetUserBetsThrows
    \/ CallManageMatches
    \/ NextManage
    \/ CallProcessWinningClaims
    \/ NextFinishedMatch
    \/ FinishedMatchesDone
    \/ NextCancelledMatch
    \/ ProcessWinningClaimsReturns
    \/ StartClaim
    \/ MatchBetsDone
    \/ ClaimResolves
    \/ ClaimRejects
    \/ ClaimRetryResolves
    \/ ClaimRetryRejects

SpecClaims == InitClaims /\ [][NextClaims]_vars

\* ---- the lifecycle a match is tracked in
FinishedKeys ==
    { matchOutcomes.finished[i].matchId : i \in 1..Len(matchOutcomes.finished) }
CancelledKeys ==
    { matchOutcomes.cancelled[i] : i \in 1..Len(matchOutcomes.cancelled) }
LifecycleMethods == {"end_betting", "cancel_match", "finish_match"}

\* the state the tracker mo records for key k
Lifecycle(mo, k) ==
    IF \E i \in 1..Len(mo.finished) : mo.finished[i].matchId = k THEN "Finished"
    ELSE IF Includes(mo.cancelled, k) THEN "Cancelled"
    ELSE IF k \in mo.endedBetting THEN "BettingEnded"
    ELSE "Created"

FinishRecords(mo, k) ==
    { i \in 1..Len(mo.finished) : mo.finished[i].matchId = k }

AllowedTransitions ==
    { <<"Created", "BettingEnded">>, <<"BettingEnded", "Finished">>,
      <<"BettingEnded", "Cancelled">>, <<"Created", "Cancelled">> }

\* the operation started by this step, if any
StartedNow == IF Len(calls') > Len(calls) THEN {calls'[Len(calls')]} ELSE {}

\* one step respects the lifecycle of every match
LifecycleStep ==
    /\ \A c \in StartedNow :
        c.method \in LifecycleMethods =>
            /\ c.method = "finish_match" =>
                   Lifecycle(matchOutcomes, c.matchId) = "BettingEnded"
            /\ Lifecycle(matchOutcomes, c.matchId) \notin {"Finished", "Cancelled"}
    /\ \A k \in AllKeys :
        /\ Lifecycle(matchOutcomes, k) # Lifecycle(matchOutcomes', k) =>
               <<Lifecycle(matchOutcomes, k), Lifecycle(matchOutcomes', k)>>
                   \in AllowedTransitions
        /\ Lifecycle(matchOutcomes, k) \in {"Finished", "Cancelled"} =>
               /\ Lifecycle(matchOutcomes', k) = Lifecycle(matchOutcomes, k)
               /\ \A i \in FinishRecords(matchOutcomes, k) :
                      matchOutcomes'.finished[i] = matchOutcomes.finished[i]

\* the keys of the matches manageMatches cancels (matches.slice(-2)) differ
CancelTargetsDistinct ==
    \A i, j \in 1..Len(SliceTail(matches, CancelCount)) :
        i # j => MatchId(SliceTail(matches, CancelCount)[i])
                   # MatchId(SliceTail(matches, CancelCount)[j])

\* C4 as stated: in every run every step respects the lifecycle: finish_match
\* is started only for a betting-ended match, nothing is started for a match
\* recorded as finished or cancelled, and such a record never changes.
C4_Original == [][LifecycleStep]_vars

\* C4 amended: the same, provided the two matches selected for cancellation
\* have different keys.
C4_Lifecycle == [][CancelTargetsDistinct => LifecycleStep]_vars

\* a run with distinct cancel targets in which one match went
\* Created -> BettingEnded -> Finished and another BettingEnded -> Cancelled
C4_Witness ==
    /\ mpc = "done"
    /\ CancelTargetsDistinct
    /\ FinishedKeys # {}
    /\ CancelledKeys \cap matchOutcomes.endedBetting # {}

\* C5: at every point the finished keys number at most 4 and each of them
\* is recorded as betting-ended, whichever operations failed.
C5_FinishedBounded ==
    /\ Cardinality(FinishedKeys) <= 4
    /\ FinishedKeys \subseteq matchOutcomes.endedBetting

\* five matches had their betting ended, both cancels failed, so five were
\* eligible and four were finished
C5_Witness ==
    /\ mpc = "done"
    /\ Cardinality(matchOutcomes.endedBetting) = 5
    /\ matchOutcomes.cancelled = <<>>
    /\ Cardinality(FinishedKeys) = 4

OkCalls(method) ==
    { i \in 1..Len(calls) : calls[i].method = method /\ calls[i].status = "ok" }

\* C6 as stated: when manageMatches is done, exactly 2 keys are cancelled.
C6_Original == mpc = "done" => Cardinality(CancelledKeys) = 2

\* C6 amended: at most 2 keys are ever cancelled; when manageMatches is done
\* the cancelled keys are exactly those whose cancel_match succeeded, so with
\* distinct keys there are 2 if and only if both cancel_match calls succeeded.
C6_CancelledAtMostTwo ==
    /\ Cardinality(CancelledKeys) <= 2
    /\ mpc = "done" =>
        /\ CancelledKeys = { calls[i].matchId : i \in OkCalls("cancel_match") }
        /\ Len(matchOutcomes.cancelled) = Cardinality(OkCalls("cancel_match"))
        /\ CancelTargetsDistinct =>
              (Cardinality(CancelledKeys) = 2 <=>
                   Cardinality(OkCalls("cancel_match")) = 2)

\* both cancels succeeded on distinct keys
C6_Witness ==
    /\ mpc = "done"
    /\ CancelTargetsDistinct
    /\ Cardinality(OkCalls("cancel_match")) = 2
    /\ Cardinality(CancelledKeys) = 2

\* C7: no key is recorded both as cancelled and as finished.
C7_CancelledFinishedDisjoint == CancelledKeys \cap FinishedKeys = {}

\* a cancelled match had its betting ended before, and other matches were
\* finished
C7_Witness ==
    /\ mpc = "done"
    /\ CancelledKeys \cap matchOutcomes.endedBetting # {}
    /\ Cardinality(FinishedKeys) >= 2
    /\ \E i \in OkCalls("end_betting") : calls[i].matchId \in CancelledKeys

\* C10: the finished list holds at most one entry per key, and after a
\* finish_match succeeded for a key no finish_match is started for it again.
C10_FinishOnce ==
    /\ \A i, j \in 1..Len(matchOutcomes.finished) :
        i # j => matchOutcomes.finished[i].matchId # matchOutcomes.finished[j].matchId
    /\ \A i, j \in 1..Len(calls) :
        (/\ i < j
         /\ calls[i].method = "finish_match"
         /\ calls[i].status = "ok"
         /\ calls[j].method = "finish_match") => calls[i].matchId # calls[j].matchId

\* the same key was selected to finish twice; the second one was skipped
C10_Witness ==
    /\ mpc = "finish"
    /\ finishIdx > Len(matchesToFinish)
    /\ \E i, j \in 1..Len(matchesToFinish) :
        /\ i < j
        /\ MatchId(matchesToFinish[i]) = MatchId(matchesToFinish[j])
        /\ FinishedSome(MatchId(matchesToFinish[i]))

\* ---- what makeRandomBets announces, and what manageMatches does
\* 316: matches.slice(0, 6)
PredeterminedCount == 6

\* 316: const matchesToFinish = matches.slice(0, 6) of makeRandomBets
PredeterminedToFinish == SliceHead(matches, PredeterminedCount)

\* 317-322: the Map from the key of each of them to "Team1"
matchWinners ==
    [k \in { MatchId(PredeterminedToFinish[i]) : i \in 1..Len(PredeterminedToFinish) }
        |-> "Team1"]

\* C23: every match recorded as finished is one of those makeRandomBets
\* pre-determined as finished (the first 6 of the fixture), and the winner
\* recorded for it is the winner pre-determined for it (Team1).
C23_FinishedAsPredetermined ==
    \A i \in 1..Len(matchOutcomes.finished) :
        /\ matchOutcomes.finished[i].matchId \in DOMAIN matchWinners
        /\ matchOutcomes.finished[i].winner = matchWinners[matchOutcomes.finished[i].matchId]

\* C24: no cancel_match is issued for a key recorded in the ended-betting
\* set.
C24_CancelAvoidsEndedBetting ==
    \A i \in 1..Len(calls) :
        calls[i].method = "cancel_match" => calls[i].matchId \notin matchOutcomes.endedBetting

\* the keys of the fixture are pairwise different
UniqueKeys ==
    \A i, j \in 1..Len(matches) : i # j => MatchId(matches[i]) # MatchId(matches[j])

\* the lifecycle operations that are in flight
PendingLifecycle ==
    { i \in 1..Len(calls) :
        calls[i].method \in LifecycleMethods /\ calls[i].status = "pending" }

\* C25: with unique keys in the fixture, no two lifecycle operations
\* (end_betting, cancel_match, finish_match, over all their attempts) for the
\* same key are in flight together.
C25_OneInFlightPerMatch ==
    UniqueKeys =>
        \A i, j \in PendingLifecycle : i # j => calls[i].matchId # calls[j].matchId

\* end_betting is in flight for every match of the unique five-match fixture
C25_Witness ==
    /\ UniqueKeys
    /\ Cardinality(PendingLifecycle) = Len(matches)
    /\ Len(matches) >= 2
    /\ \A i \in PendingLifecycle : calls[i].method = "end_betting"

\* the operation i succeeds in this step
Succeeds(i) == calls[i].status = "pending" /\ calls'[i].status = "ok"

\* an operation fails for good in this step
SomeFails ==
    \E i \in 1..Len(calls) : calls[i].status = "pending" /\ calls'[i].status = "failed"

\* a step changes a record of the tracker only by adding the key of an
\* operation of the matching kind that succeeds in that step, and leaves the
\* three records alone when an operation fails
RecordedOnSuccessOnly ==
    /\ \A k \in matchOutcomes'.endedBetting \ matchOutcomes.endedBetting :
          \E i \in 1..Len(calls) :
              Succeeds(i) /\ calls[i].method = "end_betting" /\ calls[i].matchId = k
    /\ matchOutcomes.endedBetting \subseteq matchOutcomes'.endedBetting
    /\ matchOutcomes'.cancelled # matchOutcomes.cancelled =>
          \E i \in 1..Len(calls) :
              /\ Succeeds(i) /\ calls[i].method = "cancel_match"
              /\ matchOutcomes'.cancelled = Append(matchOutcomes.cancelled, calls[i].matchId)
    /\ matchOutcomes'.finished # matchOutcomes.finished =>
          \E i \in 1..Len(calls) :
              /\ Succeeds(i) /\ calls[i].method = "finish_match"
              /\ matchOutcomes'.finished =
                     Append(matchOutcomes.finished,
                            [matchId |-> calls[i].matchId, winner |-> calls[i].winner])
    /\ SomeFails =>
          /\ matchOutcomes'.endedBetting = matchOutcomes.endedBetting
          /\ matchOutcomes'.cancelled = matchOutcomes.cancelled
          /\ matchOutcomes'.finished = matchOutcomes.finished

\* C26: a key enters the ended-betting, cancelled or finished record only in
\* the step in which the end_betting, cancel_match or finish_match call for
\* it returns successfully, and a call that fails for good leaves the three
\* records unchanged.
C26_RecordedOnSuccess == [][RecordedOnSuccessOnly]_vars

\* one call of each kind succeeded and is recorded; an end_betting and a
\* cancel_match failed and their keys are in no record
C26_Witness ==
    /\ mpc = "done"
    /\ matchOutcomes.endedBetting # {}
    /\ matchOutcomes.cancelled # <<>>
    /\ matchOutcomes.finished # <<>>
    /\ \E i, j \in 1..Len(calls) :
        /\ calls[i].method = "end_betting" /\ calls[i].status = "failed"
        /\ calls[j].method = "cancel_match" /\ calls[j].status = "failed"
        /\ calls[i].matchId \notin matchOutcomes.endedBetting
        /\ calls[i].matchId \notin CancelledKeys \cup FinishedKeys
        /\ calls[j].matchId \notin CancelledKeys

\* ---- claim processing
\* a claim call was started for this tracked bet
ClaimIssued(bet) ==
    \E i \in 1..Len(calls) :
        /\ calls[i].method = "claim"
        /\ calls[i].accountId = bet.accountId
        /\ calls[i].bet_id = toString(bet.betId)

\* C8: for every bet tracked against a finished match, a claim call is issued
\* only if the bet's team is the recorded winner, and once processWinningClaims
\* has returned a claim call has been issued if the team is the winner.
C8_WinningBetsClaimed ==
    \A i \in 1..Len(matchOutcomes.finished) :
        LET f == matchOutcomes.finished[i]
        IN  \A j \in 1..Len(MatchBets(f.matchId)) :
                LET bet == MatchBets(f.matchId)[j]
                IN  /\ ClaimIssued(bet) => bet.team = f.winner
                    /\ (cpc = "done" /\ bet.team = f.winner) => ClaimIssued(bet)

\* a finished match has a winning bet that was claimed and a losing bet that
\* was not
C8_Witness ==
    /\ cpc = "done"
    /\ \E i \in 1..Len(matchOutcomes.finished) :
        LET f == matchOutcomes.finished[i]
        IN  \E j, k \in 1..Len(MatchBets(f.matchId)) :
                /\ MatchBets(f.matchId)[j].team = f.winner
                /\ ClaimIssued(MatchBets(f.matchId)[j])
                /\ MatchBets(f.matchId)[k].team # f.winner
                /\ ~ClaimIssued(MatchBets(f.matchId)[k])

\* C9: no claim call is ever issued for a bet whose match is recorded neither
\* as finished nor as cancelled, and once processWinningClaims has returned a
\* claim call has been issued for every bet of every cancelled match, wherever
\* the bet stands in the tracker.
C9_CancelledBetsClaimed ==
    /\ \A k \in DOMAIN matchOutcomes.bets \ (FinishedKeys \cup CancelledKeys) :
        \A j \in 1..Len(MatchBets(k)) : ~ClaimIssued(MatchBets(k)[j])
    /\ cpc = "done" =>
        \A k \in CancelledKeys :
            \A j \in 1..Len(MatchBets(k)) : ClaimIssued(MatchBets(k)[j])

\* a bet of a cancelled match, tracked after a bet of a match that was neither
\* finished nor cancelled, was claimed, whatever its team; the other was not
C9_Witness ==
    /\ cpc = "done"
    /\ \E k \in CancelledKeys, n \in DOMAIN matchOutcomes.bets :
        /\ n \notin FinishedKeys \cup CancelledKeys
        /\ Len(MatchBets(k)) = 1
        /\ Len(MatchBets(n)) = 1
        /\ MatchBets(n)[1].betId < MatchBets(k)[1].betId
        /\ MatchBets(n)[1].accountId # MatchBets(k)[1].accountId
        /\ ClaimIssued(MatchBets(k)[1])
        /\ ~ClaimIssued(MatchBets(n)[1])

\* the claimBet invocations made for this tracked bet, as positions of calls
ClaimIndices(bet) ==
    { i \in 1..Len(calls) :
        /\ calls[i].method = "claim"
        /\ calls[i].accountId = bet.accountId
        /\ calls[i].bet_id = toString(bet.betId) }

\* the bet tracked against key k is one processWinningClaims has to claim
Claimable(bet, k) ==
    \/ k \in CancelledKeys
    \/ \E i \in 1..Len(matchOutcomes.finished) :
          /\ matchOutcomes.finished[i].matchId = k
          /\ matchOutcomes.finished[i].winner = bet.team

\* claimBet is invoked at most twice for the bet, a second time exactly when
\* the first invocation has failed (hence never after one that succeeded),
\* and it has been invoked once processWinningClaims is done if the bet is
\* claimable, whatever happened to the bets before it
ClaimedAtMostTwice(bet, k) ==
    LET idx == ClaimIndices(bet)
    IN  /\ Cardinality(idx) <= 2
        /\ \A i \in idx :
              (\E j \in idx : j > i) <=>
                  (calls[i].status = "failed" /\ \A j \in idx : j >= i)
        /\ (cpc = "done" /\ Claimable(bet, k)) => idx # {}

AllBetsClaimedAtMostTwice ==
    \A k \in DOMAIN matchOutcomes.bets :
        \A n \in 1..Len(MatchBets(k)) : ClaimedAtMostTwice(MatchBets(k)[n], k)

\* C17 as stated: for each claimable bet the retried claim operation is
\* invoked at most twice, the second time if and only if the first exhausted
\* its retries, never after a claim for the bet succeeded, and two failures
\* do not prevent the claims of the remaining bets.
C17_Original == AllBetsClaimedAtMostTwice

\* C17 amended: the same, provided the two matches selected for cancellation
\* have different keys (otherwise the key is recorded as cancelled twice and
\* its bets are processed twice).
C17_ClaimRetriedOnce == CancelTargetsDistinct => AllBetsClaimedAtMostTwice

\* both invocations for one bet failed, and the bet after it was claimed
C17_Witness ==
    /\ cpc = "done"
    /\ CancelTargetsDistinct
    /\ \E i \in 1..Len(calls) :
        /\ i + 2 <= Len(calls)
        /\ calls[i].method = "claim"
        /\ calls[i].status = "failed"
        /\ calls[i + 1] = calls[i]
        /\ calls[i + 2].method = "claim"
        /\ calls[i + 2].bet_id # calls[i].bet_id
        /\ calls[i + 2].status = "ok"

\* ------------------------------------------------------------------------
\* SpecRun: the top level of the script (80-213, 699-703): the preflight, the
\* provisioning phases, then makeRandomBets, manageMatches and
\* processWinningClaims. As in SpecManage an operation wrapped in retryOnFail
\* is started, stays pending over its attempts, and resolves or rejects once.
\* Two accounts stand for the ten of the script and a fixture has one or two
\* matches (so the second batch of matches is empty); `calls` records every
\* state-changing operation started.
\* ------------------------------------------------------------------------
\* const batchSize = 10 (numberOfBatches = 2 gives the two phases of Phases)
batchSize == 10

\* the accounts of the bets makeRandomBets places, in program order: one bet
\* per account (numberOfBets is 8..12 in the script)
BetPlan == newAccounts

\* the fixtures of a run: one entry, or two entries with the same key, so
\* that every branch of manageMatches can be taken
RunFixtures ==
    { << Match("A", "B", "d1") >>,
      << Match("X-Y", "Z", "d3"), Match("X", "Y-Z", "d3") >> }

\* Balances are kept as differences to a reference amount, in the smallest
\* unit of the token. vex: to 100_000 * ONE_VEX; usdc: to 10_000 * ONE_USDC;
\* near: to NearBase, the multiple of 2^30 yoctoNEAR next below 5 * 10^24
\* (5 * 10^24 = NearBase + 37 * 2^24, and NearBase / 2^30 is even).
\* A double between 2^82 and 2^83 is a multiple of 2^30
NearUlp == 1073741824
\* 5 NEAR exactly, as a difference to NearBase
FiveNearExact == 620756992
\* 5 * ONE_NEAR before rounding: ONE_NEAR is the string "1" followed by 24
\* zeros, as a number the double 10^24 - 2^24, so the product is
\* 5 * 10^24 - 5 * 2^24 = NearBase + 2^29
FiveOneNear == 536870912

\* ToNumber of an amount near NearBase: the nearest multiple of 2^30, a tie
\* going to the even multiple
ToNumber(yocto) ==
    LET lo == (yocto \div NearUlp) * NearUlp
        rest == yocto - lo
        half == NearUlp \div 2
    IN  IF rest < half THEN lo
        ELSE IF rest > half THEN lo + NearUlp
        ELSE IF (lo \div NearUlp) % 2 = 0 THEN lo ELSE lo + NearUlp

\* 874: BigInt(vexBalance) < BigInt(100_000) * BigInt(ONE_VEX)
VexTooLow(b) == b.vex < 0
\* 882: usdcBalance < 10_000 * ONE_USDC, exact below 2^53
UsdcTooLow(b) == b.usdc < 0
\* 893: nearBalance.total < 5 * ONE_NEAR, both operands converted to doubles
NearTooLow(b) == ToNumber(b.near) < ToNumber(FiveOneNear)

\* answers of the three balance queries explored
PreflightAnswers ==
    [vex : {-1, 0}, usdc : {-1, 0},
     near : {-NearUlp, -(NearUlp \div 2) - 1, -(NearUlp \div 2),
             FiveNearExact - 1, FiveNearExact, NearUlp}]

\* the provisioning phases in program order, by the remote method they call
Phases ==
    << "stake", "create_account", "send_money", "storage_deposit", "ft_transfer",
       "create_match", "create_match" >>
MatchCreationPhase == 6

\* matches.slice(startIndex, startIndex + batchSize)
MatchBatch(batchNumber) ==
    LET startIndex == batchNumber * batchSize
        end == IF startIndex + batchSize < Len(matches)
               THEN startIndex + batchSize ELSE Len(matches)
    IN  SubSeq(matches, startIndex + 1, end)

\* number of operations a phase launches
PhaseItems(p) ==
    IF p = 1 THEN 1
    ELSE IF p < MatchCreationPhase THEN Len(newAccounts)
    ELSE Len(MatchBatch(p - MatchCreationPhase))

ProvCall(p, i) ==
    [method |-> Phases[p], phase |-> p, item |-> i, status |-> "pending"]

BetCall(accountId) ==
    [method |-> "bet", accountId |-> accountId, status |-> "pending"]

PhaseCalls(p) ==
    { i \in 1..Len(calls) : calls[i].method = Phases[p] /\ calls[i].phase = p }

BetCalls == { i \in 1..Len(calls) : calls[i].method = "bet" }

InitRun ==
    /\ currentMainKeyIndex = 0
    /\ currentAdminKeyIndex = 0
    /\ mainKeyLog = <<>>
    /\ adminKeyLog = <<>>
    /\ RetryIdle
    /\ matches \in RunFixtures
    /\ matchOutcomes = EmptyOutcomes
    /\ mpc = "idle"
    /\ matchesForEndBetting = <<>>
    /\ endIdx = 1
    /\ matchesToCancel = <<>>
    /\ cancelIdx = 1
    /\ matchesToFinish = <<>>
    /\ finishIdx = 1
    /\ winner = "none"
    /\ calls = <<>>
    /\ bpc = "idle"
    /\ fetchIdx = 1
    /\ ClaimsIdle
    /\ tpc = "preflight"
    /\ phaseIdx = 1
    /\ balances \in PreflightAnswers
    /\ exitCode = "none"
    /\ batchOps = <<>>
    /\ signed = <<>>
    /\ WagersIdle

\* 80, 848-899: every check of checkMainAccountBalance passes
PreflightPasses ==
    /\ tpc = "preflight"
    /\ ~VexTooLow(balances) /\ ~UsdcTooLow(balances) /\ ~NearTooLow(balances)
    /\ tpc' = "launch"
    \* the answers are locals of checkMainAccountBalance
    /\ balances' = [vex |-> 0, usdc |-> 0, near |-> 0]
    /\ UNCHANGED <<keyVars, retryVars, trackerVars, manageVars, betVars, claimVars,
                   phaseIdx, exitCode, poolVars, wagerVars>>

\* 874-898: one of the checks fails: process.exit(1)
PreflightExits ==
    /\ tpc = "preflight"
    /\ VexTooLow(balances) \/ UsdcTooLow(balances) \/ NearTooLow(balances)
    /\ tpc' = "exited"
    /\ exitCode' = "1"
    /\ UNCHANGED <<keyVars, retryVars, trackerVars, manageVars, betVars, claimVars,
                   phaseIdx, balances, poolVars, wagerVars>>

\* 856-871, 890: a balance query throws; nothing catches it, the top-level
\* await rejects and the process ends with exit code 1
PreflightThrows ==
    /\ tpc = "preflight"
    /\ tpc' = "exited"
    /\ exitCode' = "1"
    /\ UNCHANGED <<keyVars, retryVars, trackerVars, manageVars, betVars, claimVars,
                   phaseIdx, balances, poolVars, wagerVars>>

\* 83-86, 107-118, 130-133, ..., 189-192: the operations of the phase are
\* all started before the first await
LaunchPhase ==
    /\ tpc = "launch"
    /\ calls' = calls \o [i \in 1..PhaseItems(phaseIdx) |-> ProvCall(phaseIdx, i)]
    /\ tpc' = "await"
    /\ UNCHANGED <<keyVars, retryVars, trackerVars, mpc, manageLocals, betVars,
                   claimVars, phaseIdx, balances, exitCode, poolVars, wagerVars>>

\* an operation of the awaited phase resolves
ItemResolves ==
    /\ tpc = "await"
    /\ \E i \in PhaseCalls(phaseIdx) :
        /\ calls[i].status = "pending"
        /\ calls' = [calls EXCEPT ![i].status = "ok"]
    /\ UNCHANGED <<keyVars, retryVars, trackerVars, mpc, manageLocals, betVars,
                   claimVars, runVars, poolVars, wagerVars>>

\* 88-92, 122-125, ..., 205-210: an operation of the awaited phase rejects;
\* Promise.all rejects with it (the awaited stakeVEX rejects) and the catch
\* block calls process.exit(1) before any other callback runs
ItemRejects_keepsRunning ==
    /\ tpc = "await"
    /\ \E i \in PhaseCalls(phaseIdx) :
        /\ calls[i].status = "pending"
        /\ calls' = [calls EXCEPT ![i].status = "failed"]
    /\ tpc' = IF phaseIdx < Len(Phases) THEN "launch" ELSE "drivers"
    /\ phaseIdx' = IF phaseIdx < Len(Phases) THEN phaseIdx + 1 ELSE phaseIdx
    /\ bpc' = IF phaseIdx < Len(Phases) THEN bpc ELSE "place"
    /\ UNCHANGED <<keyVars, retryVars, trackerVars, mpc, manageLocals, fetchIdx,
                   claimVars, balances, exitCode, poolVars, wagerVars>>

ItemRejects ==
    /\ tpc = "await"
    /\ \E i \in PhaseCalls(phaseIdx) :
        /\ calls[i].status = "pending"
        /\ calls' = [calls EXCEPT ![i].status = "failed"]
    /\ tpc' = "exited"
    /\ exitCode' = "1"
    /\ UNCHANGED <<keyVars, retryVars, trackerVars, mpc, manageLocals, betVars,
                   claimVars, phaseIdx, balances, poolVars, wagerVars>>

\* 87, 121, 137, 153, 169, 195-203, 699: every operation of the phase has
\* resolved: the await returns and the next phase begins; after the last
\* batch of matches makeRandomBets is called
AwaitPhaseReturns_early ==
    /\ tpc = "await"
    /\ \E i \in PhaseCalls(phaseIdx) : calls[i].status = "ok"
    /\ IF phaseIdx < Len(Phases)
       THEN /\ phaseIdx' = phaseIdx + 1
            /\ tpc' = "launch"
            /\ UNCHANGED bpc
       ELSE /\ tpc' = "drivers"
            /\ bpc' = "place"
            /\ UNCHANGED phaseIdx
    /\ UNCHANGED <<keyVars, retryVars, trackerVars, manageVars, fetchIdx, claimVars,
                   balances, exitCode, poolVars, wagerVars>>

AwaitPhaseReturns ==
    /\ tpc = "await"
    /\ \A i \in PhaseCalls(phaseIdx) : calls[i].status = "ok"
    /\ IF phaseIdx < Len(Phases)
       THEN /\ phaseIdx' = phaseIdx + 1
            /\ tpc' = "launch"
            /\ UNCHANGED bpc
       ELSE /\ tpc' = "drivers"
            /\ bpc' = "place"
            /\ UNCHANGED phaseIdx
    /\ UNCHANGED <<keyVars, retryVars, trackerVars, manageVars, fetchIdx, claimVars,
                   balances, exitCode, poolVars, wagerVars>>

\* 337-398: the next bet is started; its promise gets a catch handler and
\* the loop sleeps 500 ms
PlaceBet ==
    /\ bpc = "place"
    /\ Cardinality(BetCalls) < Len(BetPlan)
    /\ calls' = Append(calls, BetCall(BetPlan[Cardinality(BetCalls) + 1]))
    /\ UNCHANGED <<keyVars, retryVars, trackerVars, mpc, manageLocals, betVars,
                   claimVars, runVars, poolVars, wagerVars>>

\* a pending bet resolves
BetResolves ==
    /\ bpc = "place"
    /\ \E i \in Pending("bet") : calls' = [calls EXCEPT ![i].status = "ok"]
    /\ UNCHANGED <<keyVars, retryVars, trackerVars, mpc, manageLocals, betVars,
                   claimVars, runVars, poolVars, wagerVars>>

\* 387-390: a pending bet rejects, its catch handler logs the error
BetRejects_unhandled ==
    /\ bpc = "place"
    /\ FailedCalls < MaxFailedCalls
    /\ \E i \in Pending("bet") : calls' = [calls EXCEPT ![i].status = "failed"]
    /\ tpc' = "exited"
    /\ exitCode' = "1"
    /\ UNCHANGED <<keyVars, retryVars, trackerVars, mpc, manageLocals, betVars,
                   claimVars, phaseIdx, balances, poolVars, wagerVars>>

BetRejects ==
    /\ bpc = "place"
    /\ FailedCalls < MaxFailedCalls
    /\ \E i \in Pending("bet") : calls' = [calls EXCEPT ![i].status = "failed"]
    /\ UNCHANGED <<keyVars, retryVars, trackerVars, mpc, manageLocals, betVars,
                   claimVars, runVars, poolVars, wagerVars>>

\* 399-411: every bet was started and Promise.all(bettingPromises) resolves
AwaitAllBets ==
    /\ bpc = "place"
    /\ Cardinality(BetCalls) = Len(BetPlan)
    /\ Pending("bet") = {}
    /\ bpc' = "fetch"
    /\ UNCHANGED <<keyVars, retryVars, trackerVars, manageVars, fetchIdx, claimVars,
                   runVars, poolVars, wagerVars>>

\* 703: processWinningClaims has returned, the module ends
ScriptEnds ==
    /\ tpc = "drivers"
    /\ cpc = "done"
    /\ tpc' = "end"
    /\ exitCode' = "0"
    /\ UNCHANGED <<keyVars, retryVars, trackerVars, manageVars, betVars, claimVars,
                   phaseIdx, balances, poolVars, wagerVars>>

NextRun ==
    \/ PreflightPasses
    \/ PreflightExits
    \/ PreflightThrows
    \/ LaunchPhase
    \/ ItemResolves
    \/ ItemRejects
    \/ AwaitPhaseReturns
    \/ PlaceBet
    \/ BetResolves
    \/ BetRejects
    \/ AwaitAllBets
    \/ NextClaims
    \/ ScriptEnds

SpecRun == InitRun /\ [][NextRun]_vars

\* The same script under fairness: Node runs a continuation that is ready,
\* and a remote call that was sent is answered or times out, so a step that
\* is possible is taken.
FairSpecRun == SpecRun /\ WF_vars(NextRun)

\* ---- the phases of a run
\* the phase a recorded operation belongs to: 1..7 provisioning, then
\* betting, end-betting, cancel, finish, claims
Rank(c) ==
    IF "phase" \in DOMAIN c THEN c.phase
    ELSE IF c.method = "bet" THEN 8
    ELSE IF c.method = "end_betting" THEN 9
    ELSE IF c.method = "cancel_match" THEN 10
    ELSE IF c.method = "finish_match" THEN 11
    ELSE 12

\* both batches of matches were created and makeRandomBets was called
MatchesCreated == bpc # "idle"

ProvisioningMethods == { Phases[p] : p \in 1..Len(Phases) }

\* C11: when the stake or an item of a provisioning phase has failed for
\* good, the process has ended with exit code 1, no operation of a later
\* phase was started, and an ended process takes no further step.
C11_ProvisioningFailureIsFatal ==
    /\ [](\A i \in 1..Len(calls) :
            (calls[i].method \in ProvisioningMethods /\ calls[i].status = "failed") =>
                /\ tpc = "exited"
                /\ exitCode = "1"
                /\ \A j \in 1..Len(calls) : Rank(calls[j]) <= Rank(calls[i]))
    /\ [][exitCode = "none"]_vars

\* an item of the third phase failed while its sibling was still pending
C11_Witness ==
    /\ exitCode = "1"
    /\ \E i, j \in PhaseCalls(3) :
        /\ calls[i].status = "failed"
        /\ calls[j].status = "pending"
    /\ \A j \in 1..Len(calls) : Rank(calls[j]) <= 3

\* a balance is below the minimum the script states (100,000 VEX, 10,000
\* USDC, 5 NEAR)
BelowMinimum(b) == b.vex < 0 \/ b.usdc < 0 \/ b.near < FiveNearExact

\* C12: with a balance below its minimum the preflight ends the process with
\* exit code 1, and no state-changing operation is started in that run.
C12_PreflightAborts ==
    [][(tpc = "preflight" /\ BelowMinimum(balances)) =>
          (exitCode' = "1" /\ calls' = <<>>)]_vars

\* C14: the phases run in program order (the operations are recorded in the
\* order of their phases), an operation is started only when every operation
\* of the phases before it has settled, and has succeeded if that phase is a
\* provisioning phase; nothing is started during the preflight, and the bets
\* are queried only when every bet has settled. The latest phase that has
\* operations is the one of the last record.
C14_PhasesInOrder ==
    /\ tpc = "preflight" => calls = <<>>
    /\ bpc \in {"fetch", "done"} => Pending("bet") = {}
    /\ \A i \in 1..Len(calls) :
        LET r == Rank(calls[i])
        IN  /\ i < Len(calls) => r <= Rank(calls[i + 1])
            /\ (calls[i].status # "ok" /\ r <= Len(Phases)) => r = Rank(calls[Len(calls)])
            /\ calls[i].status = "pending" => r = Rank(calls[Len(calls)])

\* a run through every phase that has operations
C14_Witness ==
    /\ tpc = "end"
    /\ \A r \in (1..12) \ {Len(Phases)} : \E i \in 1..Len(calls) : Rank(calls[i]) = r

\* C15: a batch is left only when each of its operations has settled: an
\* operation of a provisioning phase is pending only while its phase is
\* awaited.
C15_BatchSettlesAll ==
    \A i \in 1..Len(calls) :
        (calls[i].method \in ProvisioningMethods /\ calls[i].status = "pending") =>
            (tpc = "await" /\ calls[i].phase = phaseIdx)

\* ------------------------------------------------------------------------
\* SpecBatch: one provisioning batch (107-126 for the main account, 185-211
\* for the admin account): ten operations, each a retryOnFail run
\* with the default three attempts, launched in one loop and awaited with
\* Promise.all. Every attempt takes the next credential of the principal
\* (722-726, 792-796) and sends one remote call signed with it.
\* ------------------------------------------------------------------------
\* cursor of each principal when its first batch is launched: the stake
\* (84-86) has taken one credential of the main account, nothing has taken
\* one of the admin account
BatchStart == [main |-> 1, admin |-> 0]

\* 107: for (let i = 0; i < 10; i++)
AccountCount == 10

\* operations launched together: the accounts of 107-117 for the main
\* account, a slice of batchSize matches (187) for the admin account
BatchItems == IF rPrincipal = "main" THEN AccountCount ELSE batchSize

BatchOp(k) == [attempt |-> 1, st |-> "await", key |-> k]

\* the credential the principal's next-key function has just returned
ReturnedKey == IF rPrincipal = "main" THEN mainKeyLog'[Len(mainKeyLog')]
               ELSE adminKeyLog'[Len(adminKeyLog')]

\* createConnectionWithKey(mainAccountId, getNextMainKey()), or the same
\* with the admin account
TakeCredential ==
    \/ rPrincipal = "main" /\ getNextMainKey
          /\ UNCHANGED <<currentAdminKeyIndex, adminKeyLog>>
    \/ rPrincipal = "admin" /\ getNextAdminKey
          /\ UNCHANGED <<currentMainKeyIndex, mainKeyLog>>

InitBatch ==
    /\ rPrincipal \in {"main", "admin"}
    /\ currentMainKeyIndex = BatchStart.main
    /\ currentAdminKeyIndex = BatchStart.admin
    /\ mainKeyLog = <<>>
    /\ adminKeyLog = <<>>
    /\ maxAttempts = DefaultMaxAttempts
    /\ attempt = 1
    /\ rpc = "idle"
    /\ opLog = <<>>
    /\ delays = 0
    /\ result = [kind |-> "none"]
    /\ matches = <<>>
    /\ matchOutcomes = EmptyOutcomes
    /\ mpc = "idle"
    /\ matchesForEndBetting = <<>>
    /\ endIdx = 1
    /\ matchesToCancel = <<>>
    /\ cancelIdx = 1
    /\ matchesToFinish = <<>>
    /\ finishIdx = 1
    /\ winner = "none"
    /\ calls = <<>>
    /\ bpc = "idle"
    /\ fetchIdx = 1
    /\ ClaimsIdle
    /\ tpc = "launch"
    /\ phaseIdx = 1
    /\ balances = [vex |-> 0, usdc |-> 0, near |-> 0]
    /\ exitCode = "none"
    /\ batchOps = <<>>
    /\ signed = <<>>
    /\ WagersIdle

\* 108-117, 189-192: the loop calls createAccount / createMatch for the next
\* item; the operation runs up to its first await, which is after it took
\* its credential
LaunchItem ==
    /\ tpc = "launch"
    /\ Len(batchOps) < BatchItems
    /\ TakeCredential
    /\ batchOps' = Append(batchOps, BatchOp(ReturnedKey))
    /\ signed' = Append(signed, ReturnedKey)
    /\ tpc' = IF Len(batchOps) + 1 = BatchItems THEN "await" ELSE "launch"
    /\ UNCHANGED <<retryVars, trackerVars, manageVars, betVars, claimVars,
                   phaseIdx, balances, exitCode, wagerVars>>

\* 709: the remote call of an item returns, retryOnFail returns
ItemCallReturns ==
    /\ tpc = "await"
    /\ \E i \in 1..Len(batchOps) :
        /\ batchOps[i].st = "await"
        /\ batchOps' = [batchOps EXCEPT ![i].st = "ok"]
    /\ UNCHANGED <<keyVars, retryVars, trackerVars, manageVars, betVars, claimVars,
                   runVars, signed, wagerVars>>

\* the items one of whose calls has thrown
FailingItems == {i \in 1..Len(batchOps) :
                    batchOps[i].attempt > 1 \/ batchOps[i].st \in {"delay", "failed"}}

\* the remote call of item i may throw
MayThrow(i) == i \in FailingItems \/ Cardinality(FailingItems) < MaxFailingItems

\* 710-715: the remote call of an item throws before the last attempt: the
\* item waits delayMs
ItemCallThrows ==
    /\ tpc = "await"
    /\ \E i \in 1..Len(batchOps) :
        /\ batchOps[i].st = "await"
        /\ MayThrow(i)
        /\ batchOps[i].attempt < maxAttempts
        /\ batchOps' = [batchOps EXCEPT ![i].st = "delay"]
    /\ UNCHANGED <<keyVars, retryVars, trackerVars, manageVars, betVars, claimVars,
                   runVars, signed, wagerVars>>

\* 711-712, 122-125: the remote call of the last attempt throws, retryOnFail
\* rethrows, Promise.all rejects and the catch block exits
ItemGivesUp ==
    /\ tpc = "await"
    /\ \E i \in 1..Len(batchOps) :
        /\ batchOps[i].st = "await"
        /\ MayThrow(i)
        /\ batchOps[i].attempt = maxAttempts
        /\ batchOps' = [batchOps EXCEPT ![i].st = "failed"]
    /\ tpc' = "exited"
    /\ exitCode' = "1"
    /\ UNCHANGED <<keyVars, retryVars, trackerVars, manageVars, betVars, claimVars,
                   phaseIdx, balances, signed, wagerVars>>

\* 707-709: the delay is over, the next attempt calls operation() again,
\* which takes the next credential and sends the call
ItemRetries ==
    /\ tpc = "await"
    /\ \E i \in 1..Len(batchOps) :
        /\ batchOps[i].st = "delay"
        /\ TakeCredential
        /\ batchOps' = [batchOps EXCEPT ![i] =
                           [attempt |-> @.attempt + 1, st |-> "await", key |-> ReturnedKey]]
        /\ signed' = Append(signed, ReturnedKey)
    /\ UNCHANGED <<retryVars, trackerVars, manageVars, betVars, claimVars, runVars, wagerVars>>

\* 121: every item has resolved, the await returns
BatchReturns ==
    /\ tpc = "await"
    /\ batchOps # <<>>
    /\ \A i \in 1..Len(batchOps) : batchOps[i].st = "ok"
    /\ tpc' = "done"
    /\ UNCHANGED <<keyVars, retryVars, trackerVars, manageVars, betVars, claimVars,
                   phaseIdx, balances, exitCode, poolVars, wagerVars>>

NextBatch ==
    \/ LaunchItem
    \/ ItemCallReturns
    \/ ItemCallThrows
    \/ ItemGivesUp
    \/ ItemRetries
    \/ BatchReturns

SpecBatch == InitBatch /\ [][NextBatch]_vars

\* the credentials the principal of the batch has acquired, in order
PrincipalLog == IF rPrincipal = "main" THEN mainKeyLog ELSE adminKeyLog

\* item i starts another attempt in this step
Retried(i) ==
    /\ i \in 1..Len(batchOps)
    /\ batchOps[i].st = "delay"
    /\ batchOps'[i].st = "await"

\* C19: every attempt of the retry loop advances the cursor of the principal
\* by one and sends one remote call, so the calls sent are as many as the
\* advances (and signed with the credentials acquired, in order), and a
\* retried attempt is signed with another credential than the attempt that
\* has just failed.
C19_OneCallPerAdvance ==
    /\ [](signed = PrincipalLog)
    /\ [][\A i \in 1..BatchItems : Retried(i) => batchOps'[i].key # batchOps[i].key]_vars

\* C20: no two remote calls of the batch that are in flight at the same time
\* are signed with the same credential, the calls of retry attempts included.
C20_NoSharedCredentialInFlight ==
    \A i, j \in 1..Len(batchOps) :
        (i < j /\ batchOps[i].st = "await" /\ batchOps[j].st = "await")
            => batchOps[i].key # batchOps[j].key

\* ------------------------------------------------------------------------
\* SpecBets: the betting loop of makeRandomBets (329-401). Each iteration
\* draws an amount, adds it to the account's total, starts bet(...) with a
\* catch handler that takes the amount off again, and sleeps 500 ms; the
\* handlers run while the loop sleeps and while Promise.all is awaited. A bet
\* that resolves runs no code of the script, so the bets still pending are
\* taken as resolved when Promise.all returns. The match and the team of a
\* bet do not enter the amounts and are left out.
\* ------------------------------------------------------------------------
\* 363: const remainingAllowance = 1000 - ...
BetLimit == 1000
\* 372: Math.min(remainingAllowance, 100)
MaxBetAmount == 100

\* 339: Math.floor(Math.random() * 5) + 8
NumberOfBetsDraws == 8..12

\* the accounts makeRandomBets is run for
accounts == newAccounts

\* 373: Math.floor(Math.random() * maxBet) + 1 is any of 1..maxBet; the two
\* ends of the range are explored
BetAmountDraws(maxBet) == {1, maxBet}

Min(a, b) == IF a < b THEN a ELSE b

BetPromise(accountId, betAmount) ==
    [accountId |-> accountId, betAmount |-> betAmount, status |-> "pending"]

\* the bets of the bag that are in the given status
BetsIn(status) == { b \in BagToSet(bettingPromises) : b.status = status }

RECURSIVE CopiesOf(_)
CopiesOf(bs) ==
    IF bs = {} THEN 0
    ELSE LET b == CHOOSE x \in bs : TRUE
         IN  CopiesIn(b, bettingPromises) + CopiesOf(bs \ {b})

FailedBets == CopiesOf(BetsIn("failed"))

InitBets ==
    /\ currentMainKeyIndex = 0
    /\ currentAdminKeyIndex = 0
    /\ mainKeyLog = <<>>
    /\ adminKeyLog = <<>>
    /\ RetryIdle
    /\ matches = <<>>
    /\ matchOutcomes = EmptyOutcomes
    /\ mpc = "idle"
    /\ matchesForEndBetting = <<>>
    /\ endIdx = 1
    /\ matchesToCancel = <<>>
    /\ cancelIdx = 1
    /\ matchesToFinish = <<>>
    /\ finishIdx = 1
    /\ winner = "none"
    /\ calls = <<>>
    /\ bpc = "place"
    /\ fetchIdx = 1
    /\ ClaimsIdle
    /\ tpc = "drivers"
    /\ phaseIdx = 1
    /\ balances = [vex |-> 0, usdc |-> 0, near |-> 0]
    /\ exitCode = "none"
    /\ batchOps = <<>>
    /\ signed = <<>>
    \* 330-331: every account starts at 0
    /\ accountBetAmounts = [a \in 1..Len(accounts) |-> 0]
    /\ bettingPromises = EmptyBag
    \* 339: numberOfBets of the first account
    /\ betLoop \in [account : {1}, i : {0}, numberOfBets : NumberOfBetsDraws]

\* a per-bet maximum of 200
IssueBet_cap200 ==
    /\ bpc = "place"
    /\ betLoop.account <= Len(accounts)
    /\ betLoop.i < betLoop.numberOfBets
    /\ LET remainingAllowance == BetLimit - accountBetAmounts[betLoop.account]
           maxBet == Min(remainingAllowance, 2 * MaxBetAmount)
       IN  /\ remainingAllowance > 0
           /\ \E betAmount \in BetAmountDraws(maxBet) :
                /\ accountBetAmounts' =
                     [accountBetAmounts EXCEPT ![betLoop.account] = @ + betAmount]
                /\ bettingPromises' =
                     bettingPromises (+)
                         SetToBag({BetPromise(accounts[betLoop.account], betAmount)})
    /\ betLoop' = [betLoop EXCEPT !.i = @ + 1]
    /\ UNCHANGED <<keyVars, retryVars, trackerVars, manageVars, betVars, claimVars,
                   runVars, poolVars>>

\* 343-396: one iteration of the inner loop, up to its 500 ms sleep
IssueBet ==
    /\ bpc = "place"
    /\ betLoop.account <= Len(accounts)
    /\ betLoop.i < betLoop.numberOfBets
    /\ LET remainingAllowance == BetLimit - accountBetAmounts[betLoop.account]
           maxBet == Min(remainingAllowance, MaxBetAmount)
       IN  /\ remainingAllowance > 0
           /\ \E betAmount \in BetAmountDraws(maxBet) :
                /\ accountBetAmounts' =
                     [accountBetAmounts EXCEPT ![betLoop.account] = @ + betAmount]
                /\ bettingPromises' =
                     bettingPromises (+)
                         SetToBag({BetPromise(accounts[betLoop.account], betAmount)})
    /\ betLoop' = [betLoop EXCEPT !.i = @ + 1]
    /\ UNCHANGED <<keyVars, retryVars, trackerVars, manageVars, betVars, claimVars,
                   runVars, poolVars>>

\* 337-339, 363-369: the inner loop of the account is over, because i reached
\* numberOfBets or because the allowance is used up (break); the next
\* account, if any, draws its numberOfBets
NextAccount ==
    /\ bpc = "place"
    /\ betLoop.account <= Len(accounts)
    /\ \/ betLoop.i = betLoop.numberOfBets
       \/ BetLimit - accountBetAmounts[betLoop.account] <= 0
    /\ \E n \in NumberOfBetsDraws :
         betLoop' = [account |-> betLoop.account + 1, i |-> 0,
                     numberOfBets |-> IF betLoop.account < Len(accounts) THEN n ELSE 0]
    /\ UNCHANGED <<keyVars, retryVars, trackerVars, manageVars, betVars, claimVars,
                   runVars, poolVars, accountBetAmounts, bettingPromises>>

\* the amount stays on the account's total
BetFails_noRefund ==
    /\ bpc = "place"
    /\ FailedBets < MaxFailedCalls
    /\ \E b \in BetsIn("pending") :
        bettingPromises' =
            (bettingPromises (-) SetToBag({b}))
                (+) SetToBag({[b EXCEPT !.status = "failed"]})
    /\ UNCHANGED <<keyVars, retryVars, trackerVars, manageVars, betVars, claimVars,
                   runVars, poolVars, accountBetAmounts, betLoop>>

\* 387-390: the catch handler of a bet that failed for good
BetFails ==
    /\ bpc = "place"
    /\ FailedBets < MaxFailedCalls
    /\ \E b \in BetsIn("pending") :
        /\ bettingPromises' =
             (bettingPromises (-) SetToBag({b}))
                 (+) SetToBag({[b EXCEPT !.status = "failed"]})
        /\ \E a \in 1..Len(accounts) :
             /\ accounts[a] = b.accountId
             /\ accountBetAmounts' = [accountBetAmounts EXCEPT ![a] = @ - b.betAmount]
    /\ UNCHANGED <<keyVars, retryVars, trackerVars, manageVars, betVars, claimVars,
                   runVars, poolVars, betLoop>>

\* 399-401: the loops are over and Promise.all(bettingPromises) returns: the
\* bets that have not failed have resolved
AllBetsSettle ==
    /\ bpc = "place"
    /\ betLoop.account > Len(accounts)
    /\ bettingPromises' =
         LET done == { b \in BagToSet(bettingPromises) : b.status # "pending" }
             pend == BetsIn("pending")
         IN  [b \in done \cup { [p EXCEPT !.status = "ok"] : p \in pend } |->
                 IF b.status = "ok"
                 THEN CopiesIn(b, bettingPromises)
                        + CopiesIn([b EXCEPT !.status = "pending"], bettingPromises)
                 ELSE CopiesIn(b, bettingPromises)]
    /\ bpc' = "fetch"
    /\ UNCHANGED <<keyVars, retryVars, trackerVars, manageVars, fetchIdx, claimVars,
                   runVars, poolVars, accountBetAmounts, betLoop>>

NextBets ==
    \/ IssueBet
    \/ NextAccount
    \/ BetFails
    \/ AllBetsSettle

SpecBets == InitBets /\ [][NextBets]_vars

\* the bets issued for account a, whatever became of them
BetsOf(a) == { b \in BagToSet(bettingPromises) : b.accountId = accounts[a] }

RECURSIVE AmountOf(_)
AmountOf(bs) ==
    IF bs = {} THEN 0
    ELSE LET b == CHOOSE x \in bs : TRUE
         IN  b.betAmount * CopiesIn(b, bettingPromises) + AmountOf(bs \ {b})

\* C21: at every point of the betting phase each account's tracked total is
\* between 0 and 1000, every issued amount is an integer from 1 to 100, and
\* the tracked total is the sum of the amounts of the account's issued bets
\* that have not failed.
C21_WagerTracked ==
    /\ \A b \in BagToSet(bettingPromises) : b.betAmount \in 1..MaxBetAmount
    /\ \A a \in DOMAIN accountBetAmounts :
        /\ accountBetAmounts[a] \in 0..BetLimit
        /\ accountBetAmounts[a] = AmountOf({ b \in BetsOf(a) : b.status # "failed" })

\* an account is at the ceiling again after one of its bets failed, while a
\* bet of another account has failed too
C21_Witness ==
    /\ bpc = "place"
    /\ \E a, o \in DOMAIN accountBetAmounts :
        /\ a # o
        /\ accountBetAmounts[a] = BetLimit
        /\ \E b \in BetsOf(a) : b.status = "failed"
        /\ \E b \in BetsOf(o) : b.status = "failed"

\* C22: every account issues between 8 and 12 bets: when its loop is over,
\* by count or by the early exit at the ceiling, it has issued at least 8 and
\* at most 12, whichever bets failed.
C22_EightToTwelveBets ==
    \A a \in DOMAIN accountBetAmounts :
        /\ CopiesOf(BetsOf(a)) <= 12
        /\ betLoop.account > a => CopiesOf(BetsOf(a)) >= 8

\* the early exit is about to be taken, before numberOfBets is reached and
\* after a bet of the account failed
C22_Witness ==
    /\ bpc = "place"
    /\ betLoop.account \in DOMAIN accountBetAmounts
    /\ betLoop.i < betLoop.numberOfBets
    /\ accountBetAmounts[betLoop.account] >= BetLimit
    /\ \E b \in BetsOf(betLoop.account) : b.status = "failed"

\* ------------------------------------------------------------------------
\* SpecLongFixture: the script from the creation of the matches (181-211) to
\* the end of manageMatches, on a fixture of 21 entries. The bet queries of
\* makeRandomBets all throw here, so the tracker holds no bets.
\* ------------------------------------------------------------------------
FixtureDates ==
    << "d01", "d02", "d03", "d04", "d05", "d06", "d07", "d08", "d09", "d10", "d11",
       "d12", "d13", "d14", "d15", "d16", "d17", "d18", "d19", "d20", "d21" >>

\* a fixture of 21 matches with different keys
LongFixture == [i \in 1..Len(FixtureDates) |-> Match("A", "B", FixtureDates[i])]

\* the same fixture, and one whose first two entries build the same key
LongFixtures ==
    { LongFixture,
      [i \in 1..Len(FixtureDates) |->
          IF i = 1 THEN Match("X-Y", "Z", FixtureDates[2])
          ELSE IF i = 2 THEN Match("X", "Y-Z", FixtureDates[2])
          ELSE LongFixture[i]] }

\* the first five phases are over; their records are left out
InitLongFixture ==
    /\ currentMainKeyIndex = 0
    /\ currentAdminKeyIndex = 0
    /\ mainKeyLog = <<>>
    /\ adminKeyLog = <<>>
    /\ RetryIdle
    /\ matches \in LongFixtures
    /\ matchOutcomes = EmptyOutcomes
    /\ mpc = "idle"
    /\ matchesForEndBetting = <<>>
    /\ endIdx = 1
    /\ matchesToCancel = <<>>
    /\ cancelIdx = 1
    /\ matchesToFinish = <<>>
    /\ finishIdx = 1
    /\ winner = "none"
    /\ calls = <<>>
    /\ bpc = "idle"
    /\ fetchIdx = 1
    /\ ClaimsIdle
    /\ tpc = "launch"
    /\ phaseIdx = MatchCreationPhase
    /\ balances = [vex |-> 0, usdc |-> 0, near |-> 0]
    /\ exitCode = "none"
    /\ batchOps = <<>>
    /\ signed = <<>>
    /\ WagersIdle

NextLongFixture ==
    \/ LaunchPhase
    \/ ItemResolves
    \/ ItemRejects
    \/ AwaitPhaseReturns
    \/ PlaceBet
    \/ BetResolves
    \/ BetRejects
    \/ AwaitAllBets
    \/ GetUserBetsThrows
    \/ CallManageMatches
    \/ NextManage

SpecLongFixture == InitLongFixture /\ [][NextLongFixture]_vars

\* the create_match operations that succeeded
CreatedOk ==
    { i \in 1..Len(calls) : calls[i].method = "create_match" /\ calls[i].status = "ok" }

\* the key of the match a create_match operation is for: 189-192, the item
\* of the slice of its batch
CreatedKey(c) == MatchId(MatchBatch(c.phase - MatchCreationPhase)[c.item])

CreatedKeys == { CreatedKey(calls[i]) : i \in CreatedOk }

\* C27: every end_betting, cancel_match and finish_match operation (and every
\* bet, where its match is recorded) targets a key for which a create_match
\* succeeded before in the run.
C27_TargetsCreated ==
    \A i \in 1..Len(calls) :
        "matchId" \in DOMAIN calls[i] => calls[i].matchId \in CreatedKeys

====
